---- MODULE Spec2Model ----
(***************************************************************************)
(* Iris coordinator control plane: task orchestration, per-worker circuit  *)
(* breakers, stream sessions and the reputation engine.                    *)
(*                                                                         *)
(* The orchestration part follows one task through create_task and the     *)
(* background coroutine _process_task.  Every step of the model is the     *)
(* code between two suspension points (await) of the coroutine it belongs  *)
(* to; frames from workers are handled by their own coroutines and         *)
(* interleave with the orchestration at those points.                      *)
(***************************************************************************)
EXTENDS Integers, Sequences, FiniteSets, TLC

\* ------------------------------------------------------------------ bounds
NumNodes == 2
MaxSubtasks == 1
NumSubs == 2
MaxCalls == 4
MaxFrames == 2
MaxEvents == 2
MaxHours == 2
NumKeys == 1
NumTokens == 1
NumChans == 2
MaxRegs == 3
NumUsers == 2
NumTaskIds == 2
NumChunks == 2
MaxItems == 4
MaxLoad == 2

\* ------------------------------------------------------- program constants
MAX_RETRIES == 3
CIRCUIT_BREAKER_FAILURE_THRESHOLD == 3
HealingStreak == 3

\* reputation.py; WEEKLY_DECAY_PERCENT = 0.01 is kept as its divisor
INITIAL_REPUTATION == 100
MIN_REPUTATION == 10
TASK_COMPLETED_POINTS == 10
TASK_FAST_BONUS == 5
TASK_TIMEOUT_PENALTY == -20
TASK_INVALID_PENALTY == -50
UPTIME_HOUR_BONUS == 1
UPTIME_BROKEN_PENALTY == -5
FAST_THRESHOLD_MS == 30000
WEEKLY_DECAY_DIVISOR == 100

Nodes == 1..NumNodes
Subs == 1..NumSubs
None == 0
Keys == 1..NumKeys
Tokens == 1..NumTokens
Chans == 1..NumChans
Users == 1..NumUsers
TaskIds == 1..NumTaskIds
Chunks == 1..NumChunks

\* no apply_weekly_decay is in progress
NoDecay == [active |-> FALSE, snap |-> [n \in Nodes |-> 0], next |-> 0]

VARIABLES
    connected,    \* NodeRegistry._nodes: the node ids that have a ConnectedNode
    vision,       \* ConnectedNode.supports_vision
    validKey,     \* whether ConnectedNode.public_key is a usable X25519 key
    fresh,        \* now - ConnectedNode.last_heartbeat < HEARTBEAT_TIMEOUT
    broken,       \* the websocket of the ConnectedNode no longer accepts sends
    load,         \* ConnectedNode.current_load
    conn,         \* ConnectedNode.websocket, the capabilities and node_tier
    cb,           \* CircuitBreakerManager._breakers
    task,         \* the tasks row and the arguments of _process_task
    tpc,          \* position of the _process_task coroutine
    nsub,         \* number of subtask rows of the task
    sub,          \* the subtasks rows
    spc,          \* position of the coroutine working on each subtask
    ctx,          \* "init": called from _assign_subtasks, "re": from _try_reassign_subtask
    attempt,      \* loop variable of _assign_subtask_with_retry
    excluded,     \* local set excluded of _assign_subtask_with_retry
    avail,        \* the nodes returned by the selection of the current attempt
    assignments,  \* the dict returned by _assign_subtasks
    pending,      \* TaskOrchestrator._pending_subtasks: "absent", "clear" or "set"
    stream,       \* StreamingManager._tasks entry of the task
    sent,         \* history: the TASK_ASSIGN frames that were sent
    frames,       \* number of worker frames handled so far that had an effect
    reputation,   \* nodes.reputation of the store, in 1/WEEKLY_DECAY_DIVISOR points
    upd,          \* the calls of ReputationSystem._update_reputation, in the order they began
    decay,        \* the call of apply_weekly_decay in progress, if any
    events,       \* number of reputation events begun so far
    replog,       \* the reputation_log rows, in insertion order
    account,      \* accounts.status by account key (hash): "none" when no row exists
    token,        \* the node_tokens rows
    chan,         \* the websocket_node coroutine of each channel and its local node_id
    row,          \* the nodes rows written by db.create_node
    ack,          \* the last REGISTER_ACK sent on each channel
    vres,         \* the key and the result of the last verify_account
    regs,         \* number of NODE_REGISTER frames handled so far
    tasks,        \* the tasks rows by id, as the REST endpoints see them
    reply,        \* the last response of api_get_task
    pushed,       \* history: the chunks push_chunk was called with for the session, in call order
    got,          \* the items the subscriber of the session has taken from the queue
    selected,     \* the arguments and the outcome of the last call of a selection function
    handled,      \* history: the last TASK_RESULT frame handled and whether its response decrypted
    heard,        \* history: number of TASK_STREAM frames received on worker channels
    trail         \* history: the record_failure / record_success calls per node, in call order

regVars == <<connected, vision, validKey, fresh, broken, load, conn, cb>>
taskVars == <<task, tpc, nsub>>
subVars == <<sub, spc, ctx, attempt, excluded, avail, assignments, pending>>
histVars == <<sent, frames>>
orchVars == <<regVars, taskVars, subVars, stream, histVars>>
repVars == <<reputation, upd, decay, events, replog>>
admVars == <<account, token, chan, row, ack, vres, regs>>
apiVars == <<tasks, reply>>
hubVars == <<pushed, got>>
selVars == <<selected>>
obsVars == <<handled, heard, trail>>
restVars == <<apiVars, hubVars, selVars, obsVars>>
extVars == <<admVars, restVars>>
vars == <<orchVars, repVars, extVars>>

\* ------------------------------------------------------- circuit breaker
NewBreaker == [state |-> "closed", failure_count |-> 0, success_count |-> 0,
               elapsed |-> FALSE]

\* a breaker right after its CIRCUIT_BREAKER_FAILURE_THRESHOLD-th failure in a row
OpenBreaker == [state |-> "open", failure_count |-> CIRCUIT_BREAKER_FAILURE_THRESHOLD,
                success_count |-> 0, elapsed |-> FALSE]

\* elapsed stands for utcnow() - last_failure > CIRCUIT_BREAKER_RECOVERY_TIMEOUT
RecordFailure(b) ==
    LET fc == b.failure_count + 1 IN
    [state |-> IF fc >= CIRCUIT_BREAKER_FAILURE_THRESHOLD THEN "open" ELSE b.state,
     failure_count |-> fc,
     success_count |-> 0,
     elapsed |-> FALSE]

RecordSuccess_KeepsCount(b) ==
    IF b.state = "half_open"
    THEN [b EXCEPT !.state = "closed", !.success_count = b.success_count + 1]
    ELSE [b EXCEPT !.success_count = b.success_count + 1]

\* NodeCircuitBreaker.record_success
RecordSuccess(b) ==
    LET sc == b.success_count + 1 IN
    IF b.state = "half_open"
    THEN [b EXCEPT !.state = "closed", !.failure_count = 0, !.success_count = sc]
    ELSE IF sc >= HealingStreak /\ b.failure_count > 0
         THEN [b EXCEPT !.failure_count = b.failure_count - 1, !.success_count = 0]
         ELSE [b EXCEPT !.success_count = sc]

IsAvailable_IgnoresOpen(b) == TRUE

\* the value returned by NodeCircuitBreaker.is_available
IsAvailable(b) ==
    \/ b.state = "closed"
    \/ b.state = "open" /\ b.elapsed
    \/ b.state = "half_open"

AfterIsAvailable_Eager(b) ==
    IF b.state = "open" THEN [b EXCEPT !.state = "half_open"] ELSE b

\* the breaker after a call of is_available: open becomes half_open lazily
AfterIsAvailable(b) ==
    IF b.state = "open" /\ b.elapsed THEN [b EXCEPT !.state = "half_open"] ELSE b

\* ------------------------------------------------------- registry helpers
GetVisionCapableNodes == {n \in connected : vision[n]}

IsOnline(n) == n \in connected /\ fresh[n]

IncrementLoad(l, n) == IF n \in connected THEN [l EXCEPT ![n] = l[n] + 1] ELSE l

DecrementLoad(l, n) ==
    IF n \in connected
    THEN [l EXCEPT ![n] = IF l[n] - 1 > 0 THEN l[n] - 1 ELSE 0]
    ELSE l

\* The value returned by send_to_node: the node is registered and send_text
\* did not raise.  wire tells whether the websocket still works at this send;
\* once a send has raised, the websocket stays broken.
SendToNode(n, wire) == n \in connected /\ ~broken[n] /\ wire

\* ------------------------------------------------------- stream sessions
NoStream == [exists |-> FALSE, queue |-> <<>>, is_complete |-> FALSE]

CreateStream(st) ==
    IF st.exists THEN st ELSE [NoStream EXCEPT !.exists = TRUE]

PushChunk(st) ==
    IF ~st.exists THEN st ELSE [st EXCEPT !.queue = Append(st.queue, "chunk")]

\* kind is "done" or "error" (the error strings passed by the callers are never empty)
CompleteStream(st, kind) ==
    IF ~st.exists THEN st
    ELSE [st EXCEPT !.is_complete = TRUE, !.queue = Append(st.queue, kind)]

\* ------------------------------------------------------- store helpers
NoSubtask == [status |-> "none", node |-> None, response |-> FALSE]

AssignSubtask(r, n) == [r EXCEPT !.status = "assigned", !.node = n]
CompleteSubtask(r) == [r EXCEPT !.status = "completed", !.response = TRUE]
FailSubtask(r, st) == [r EXCEPT !.status = st]

\* update_task_status: an UPDATE of the row that reads nothing; writes counts the calls
UpdateTaskStatus(t, st) == [t EXCEPT !.status = st, !.writes = @ + 1]

TerminalTask == {"completed", "failed", "partial"}
TerminalSub == {"completed", "failed", "timeout"}

\* ------------------------------------------------------------------ tiers
CalculateNodeTier_NoSmallModels(vram_gb, model_params, tokens_per_second) ==
    LET vramScore == IF vram_gb >= 24 THEN 25
                     ELSE IF vram_gb >= 16 THEN 20
                     ELSE IF vram_gb >= 12 THEN 15
                     ELSE IF vram_gb >= 8 THEN 10 ELSE 0
        paramsScore == IF model_params >= 100 THEN 65
                       ELSE IF model_params >= 70 THEN 50
                       ELSE IF model_params >= 30 THEN 40
                       ELSE IF model_params >= 13 THEN 25
                       ELSE IF model_params >= 7 THEN 15 ELSE 0
        speedScore == IF tokens_per_second >= 50 THEN 25
                      ELSE IF tokens_per_second >= 20 THEN 15
                      ELSE IF tokens_per_second >= 10 THEN 10 ELSE 0
        score == vramScore + paramsScore + speedScore
    IN IF score >= 61 THEN "premium"
       ELSE IF score >= 21 THEN "standard"
       ELSE "basic"

CalculateNodeTier(vram_gb, model_params, tokens_per_second) ==
    LET vramScore == IF vram_gb >= 24 THEN 25
                     ELSE IF vram_gb >= 16 THEN 20
                     ELSE IF vram_gb >= 12 THEN 15
                     ELSE IF vram_gb >= 8 THEN 10 ELSE 0
        paramsScore == IF model_params >= 100 THEN 65
                       ELSE IF model_params >= 70 THEN 50
                       ELSE IF model_params >= 30 THEN 40
                       ELSE IF model_params >= 13 THEN 25
                       ELSE IF model_params >= 7 THEN 15
                       ELSE IF model_params >= 3 THEN 5 ELSE 0
        speedScore == IF tokens_per_second >= 50 THEN 25
                      ELSE IF tokens_per_second >= 20 THEN 15
                      ELSE IF tokens_per_second >= 10 THEN 10 ELSE 0
        score == vramScore + paramsScore + speedScore
    IN IF score >= 61 THEN "premium"
       ELSE IF score >= 21 THEN "standard"
       ELSE "basic"

\* ------------------------------------------------------- admission records
\* A presented account key is the index of its hash, None when the frame
\* carries no account_key, or BadFormat for a string that is not 16 digits.
BadFormat == NumKeys + 1
KeyInputs == 0..BadFormat

\* a presented enrollment token: None when absent, else the row its id and hash name
TokenInputs == 0..NumTokens

NoToken == [issued |-> FALSE, used_by |-> None, revoked |-> FALSE]

\* A NodeRegisterPayload: the capability triple (vram_gb, model_params,
\* tokens_per_second), supports_vision, and whether public_key is a usable key
Payload(v, p, t, vis, key) ==
    [vram |-> v, params |-> p, tps |-> t, vision |-> vis, validKey |-> key]

NoReg == [node |-> None, acct |-> None, tok |-> None,
          payload |-> Payload(0, 0, 0, FALSE, TRUE)]

\* pc: "recv" in receive_text, "commit" inside handle_register after the
\* authentication, "closed" after the coroutine returned
NewChannel == [pc |-> "recv", node_id |-> None, reg |-> NoReg]

NoConn == [ws |-> None, vram |-> 0, params |-> 0, tps |-> 0, tier |-> "none"]

\* the ConnectedNode handle_register builds for channel c from the payload x
ConnectedNodeOf(c, x) ==
    [ws |-> c, vram |-> x.vram, params |-> x.params, tps |-> x.tps,
     tier |-> CalculateNodeTier(x.vram, x.params, x.tps)]
NoRow == [vram |-> 0, params |-> 0, tps |-> 0, tier |-> "none", account |-> None]
NoAck == [success |-> FALSE, message |-> "none"]

\* the coroutine of channel c after handle_register returned None
ClosedChannel == [pc |-> "closed", node_id |-> None, reg |-> NoReg]

\* ------------------------------------------------------------------- Init
\* Workers are interchangeable (node ids are opaque and every pick among
\* candidates is free): registries that differ only by the names of the
\* workers are listed once, ordered by what is known of each worker.
RegistryKind(n) ==
    IF n \notin connected THEN 0
    ELSE 1 + (IF vision[n] THEN 4 ELSE 0) + (IF validKey[n] THEN 2 ELSE 0)
           + (IF cb[n].state = "open" THEN 1 ELSE 0)

\* The coordinator is long-lived: when the task arrives any set of workers is
\* registered, and a breaker may be open from the failures of earlier tasks.
InitRegistry ==
    /\ connected \in SUBSET Nodes
    /\ vision \in [Nodes -> BOOLEAN]
    /\ validKey \in [Nodes -> BOOLEAN]
    /\ cb \in [Nodes -> {NewBreaker, OpenBreaker}]
    /\ \A n \in Nodes \ connected : ~vision[n] /\ validKey[n] /\ cb[n] = NewBreaker
    /\ \A n \in 1..(NumNodes - 1) : RegistryKind(n) >= RegistryKind(n + 1)
    /\ fresh = [n \in Nodes |-> TRUE]
    /\ broken = [n \in Nodes |-> FALSE]
    /\ load = [n \in Nodes |-> 0]
    /\ conn = [n \in Nodes |-> IF n \in connected
                                THEN ConnectedNodeOf(n, Payload(24, 70, 50, vision[n], validKey[n]))
                                ELSE NoConn]

\* The same registries, with breakers closed, where the last heartbeat of any
\* of the workers may be HEARTBEAT_TIMEOUT old or more.
StaleRegistry ==
    /\ connected \in SUBSET Nodes
    /\ vision \in [Nodes -> BOOLEAN]
    /\ fresh \in [Nodes -> BOOLEAN]
    /\ validKey = [n \in Nodes |-> TRUE]
    /\ cb = [n \in Nodes |-> NewBreaker]
    /\ \A n \in Nodes \ connected : ~vision[n] /\ fresh[n]
    /\ broken = [n \in Nodes |-> FALSE]
    /\ load = [n \in Nodes |-> 0]
    /\ conn = [n \in Nodes |-> IF n \in connected
                                THEN ConnectedNodeOf(n, Payload(24, 70, 50, vision[n], validKey[n]))
                                ELSE NoConn]

\* no worker is registered
EmptyRegistry ==
    /\ connected = {}
    /\ vision = [n \in Nodes |-> FALSE]
    /\ validKey = [n \in Nodes |-> TRUE]
    /\ cb = [n \in Nodes |-> NewBreaker]
    /\ fresh = [n \in Nodes |-> TRUE]
    /\ broken = [n \in Nodes |-> FALSE]
    /\ load = [n \in Nodes |-> 0]
    /\ conn = [n \in Nodes |-> NoConn]

\* no task was submitted yet
InitTask ==
    /\ task = [status |-> "none", hasImages |-> FALSE, files |-> FALSE,
               streaming |-> FALSE, final |-> FALSE, writes |-> 0]
    /\ tpc = "none"
    /\ nsub = 0
    /\ sub = [s \in Subs |-> NoSubtask]
    /\ spc = [s \in Subs |-> "none"]
    /\ ctx = [s \in Subs |-> "init"]
    /\ attempt = [s \in Subs |-> 0]
    /\ excluded = [s \in Subs |-> {}]
    /\ avail = [s \in Subs |-> {}]
    /\ assignments = [s \in Subs |-> None]
    /\ pending = [s \in Subs |-> "absent"]
    /\ stream = NoStream
    /\ sent = {}
    /\ frames = 0

\* nodes.reputation is created with DEFAULT 100; no reputation event is in progress
InitReputation ==
    /\ reputation = [n \in Nodes |-> INITIAL_REPUTATION * WEEKLY_DECAY_DIVISOR]
    /\ upd = <<>>
    /\ decay = NoDecay
    /\ events = 0
    /\ replog = <<>>

\* no account, no enrollment token, no registration; every channel was accepted
\* and its coroutine waits for the first frame
InitAdmission ==
    /\ account = [k \in Keys |-> "none"]
    /\ token = [t \in Tokens |-> NoToken]
    /\ chan = [c \in Chans |-> NewChannel]
    /\ row = [n \in Nodes |-> NoRow]
    /\ ack = [c \in Chans |-> NoAck]
    /\ vres = [key |-> None, ok |-> FALSE]
    /\ regs = 0

\* a tasks row that does not exist, and no response sent yet
NoTask == [user_id |-> None, status |-> "none", final_response |-> "none"]

NoReply == [user |-> None, task_id |-> None, code |-> 0, status |-> "none", response |-> "none"]

InitApi ==
    /\ tasks = [t \in TaskIds |-> NoTask]
    /\ reply = NoReply

InitHub ==
    /\ pushed = <<>>
    /\ got = <<>>

NoSelection == [fn |-> "none", n |-> 0, exclude |-> {}, cand |-> {}, raised |-> FALSE, nodes |-> <<>>]

InitSel == selected = NoSelection

\* no frame observed yet
NoFrame == [node |-> None, sub |-> None, decrypted |-> FALSE]

InitObs == handled = NoFrame /\ heard = 0 /\ trail = [n \in Nodes |-> <<>>]

InitExt == InitAdmission /\ InitApi /\ InitHub /\ InitSel /\ InitObs

Init == InitRegistry /\ InitTask /\ InitReputation /\ InitExt

\* ------------------------------------------------------------ create_task
\* images: the request carries at least one image; streaming: enable_streaming.
\* vision_files stays empty when no ConnectedNode supports vision (lines 144-163).
CreateTask(images, streaming) ==
    /\ UNCHANGED <<repVars, extVars>>
    /\ task.status = "none"
    /\ task' = [status |-> "pending", hasImages |-> images,
                files |-> images /\ GetVisionCapableNodes # {},
                streaming |-> streaming, final |-> FALSE, writes |-> 0]
    /\ stream' = IF streaming THEN CreateStream(stream) ELSE stream
    /\ tpc' = "start"
    /\ UNCHANGED <<regVars, nsub, subVars, histVars>>

\* _process_task up to the first selection: status Processing, the subtask rows
ProcessTaskStart(k) ==
    /\ UNCHANGED <<repVars, extVars>>
    /\ tpc = "start"
    /\ task' = UpdateTaskStatus(task, "processing")
    /\ nsub' = k
    /\ sub' = [s \in Subs |-> IF s <= k THEN [NoSubtask EXCEPT !.status = "pending"]
                              ELSE sub[s]]
    /\ spc' = [s \in Subs |-> IF s = 1 THEN "select" ELSE IF s <= k THEN "new" ELSE spc[s]]
    /\ tpc' = "assign"
    /\ UNCHANGED <<regVars, ctx, attempt, excluded, avail, assignments, pending,
                   stream, histVars>>

VisionFailureReturns_Missing == FALSE

\* the `return` of line 276 after the vision failure was recorded
VisionFailureReturns == TRUE

\* _assign_subtasks after the assignment of subtask s returned, with the
\* subtask rows subN and the assignments assignN.  After the last subtask the
\* coroutine runs on without suspension through the vision check of
\* _process_task and the creation of the events in _wait_for_completion.
InitContinue(s, assignN) ==
    IF s < nsub
    THEN /\ spc' = [spc EXCEPT ![s] = "ready", ![s + 1] = "select"]
         /\ UNCHANGED <<task, tpc, pending, stream>>
    ELSE LET visionFailed == (\A x \in 1..nsub : assignN[x] = None) /\ task.files
         IN /\ task' = IF visionFailed THEN UpdateTaskStatus(task, "failed") ELSE task
            /\ stream' = IF visionFailed THEN CompleteStream(stream, "error") ELSE stream
            /\ IF visionFailed /\ VisionFailureReturns
               THEN /\ tpc' = "done"
                    /\ spc' = [spc EXCEPT ![s] = "ready"]
                    /\ UNCHANGED pending
               ELSE /\ tpc' = "wait"
                    /\ pending' = [x \in Subs |-> IF x <= nsub THEN "clear" ELSE pending[x]]
                    /\ spc' = [x \in Subs |-> IF x <= nsub THEN "wait1" ELSE spc[x]]

\* _assign_subtask_with_retry returned (False, None)
AssignFailed(s, cbN) ==
    /\ cb' = cbN
    /\ UNCHANGED <<connected, vision, validKey, fresh, broken, load, conn>>
    /\ UNCHANGED <<nsub, assignments, histVars>>
    /\ attempt' = [attempt EXCEPT ![s] = 0]
    /\ excluded' = [excluded EXCEPT ![s] = {}]
    /\ avail' = [avail EXCEPT ![s] = {}]
    /\ IF ctx[s] = "init"
       THEN /\ sub' = [sub EXCEPT ![s] = FailSubtask(@, "failed")]
            /\ ctx' = ctx
            /\ InitContinue(s, assignments)
       ELSE /\ sub' = [sub EXCEPT ![s] = FailSubtask(@, "timeout")]
            /\ ctx' = [ctx EXCEPT ![s] = "init"]
            /\ spc' = [spc EXCEPT ![s] = "done"]
            /\ UNCHANGED <<task, tpc, pending, stream>>

\* the candidates of the vision path of _assign_subtask_with_retry (lines 494-497)
VisionCandidates(s) ==
    {n \in GetVisionCapableNodes : n \notin excluded[s] /\ IsAvailable(cb[n])}

\* the list `available` of select_nodes_v3 (lines 843-848) for the set exclude
AvailableV3(exclude) ==
    {n \in connected : n \notin exclude /\ IsOnline(n) /\ IsAvailable(cb[n])}

\* the list `available` of select_nodes_v3 as _assign_subtask_with_retry asks for it
SelectNodesV3Available(s) == AvailableV3(excluded[s])

\* One iteration of the loop of _assign_subtask_with_retry up to the selection.
\* files is passed only by _assign_subtasks, never by _try_reassign_subtask.
Select(s) ==
    /\ UNCHANGED <<repVars, extVars>>
    /\ spc[s] = "select"
    /\ LET requireVision == ctx[s] = "init" /\ task.files
           asked == IF requireVision
                    THEN {n \in GetVisionCapableNodes : n \notin excluded[s]}
                    ELSE {n \in connected : n \notin excluded[s] /\ IsOnline(n)}
           cbN == [n \in Nodes |-> IF n \in asked THEN AfterIsAvailable(cb[n]) ELSE cb[n]]
           cands == IF requireVision THEN VisionCandidates(s)
                    ELSE SelectNodesV3Available(s)
       IN IF cands = {}
          THEN IF ~requireVision /\ attempt[s] < MAX_RETRIES - 1
               THEN /\ attempt' = [attempt EXCEPT ![s] = @ + 1]
                    /\ cb' = cbN
                    /\ UNCHANGED <<connected, vision, validKey, fresh, broken, load, conn>>
                    /\ UNCHANGED <<taskVars, sub, spc, ctx, excluded, avail,
                                   assignments, pending, stream, histVars>>
               ELSE AssignFailed(s, cbN)
          ELSE /\ IF requireVision
                  THEN \E n \in cands : avail' = [avail EXCEPT ![s] = {n}]
                  ELSE avail' = [avail EXCEPT ![s] = cands]
               /\ spc' = [spc EXCEPT ![s] = "send"]
               /\ cb' = cbN
               /\ UNCHANGED <<connected, vision, validKey, fresh, broken, load, conn>>
               /\ UNCHANGED <<taskVars, sub, ctx, attempt, excluded,
                              assignments, pending, stream, histVars>>

ExcludeAfterFailure_Forgets(ex, n) == ex

\* excluded.add(node.node_id) after a send that failed
ExcludeAfterFailure(ex, n) == ex \cup {n}

\* The rest of the iteration: the pick among the selected nodes, the
\* encryption of the prompt, db.assign_subtask and send_to_node.
Send(s, n, wire) ==
    /\ UNCHANGED <<repVars, extVars>>
    /\ spc[s] = "send"
    /\ n \in avail[s]
    /\ avail' = [avail EXCEPT ![s] = {}]
    /\ UNCHANGED <<connected, vision, validKey, fresh, conn, nsub, frames>>
    /\ broken' = IF validKey[n] /\ n \in connected /\ ~wire
                 THEN [broken EXCEPT ![n] = TRUE] ELSE broken
    /\ IF ~validKey[n]
       THEN \* encrypt_for_node raises
            /\ IF ctx[s] = "init"
               THEN /\ task' = UpdateTaskStatus(task, "failed")
                    /\ tpc' = "done"
                    /\ spc' = [spc EXCEPT ![s] = "aborted"]
               ELSE /\ spc' = [spc EXCEPT ![s] = "done"]
                    /\ UNCHANGED <<task, tpc>>
            /\ ctx' = [ctx EXCEPT ![s] = "init"]
            /\ attempt' = [attempt EXCEPT ![s] = 0]
            /\ excluded' = [excluded EXCEPT ![s] = {}]
            /\ UNCHANGED <<load, cb, sub, assignments, pending, stream, sent>>
       ELSE IF SendToNode(n, wire)
       THEN \* send_to_node returned True
            /\ sub' = [sub EXCEPT ![s] = AssignSubtask(@, n)]
            /\ load' = IncrementLoad(load, n)
            /\ sent' = sent \cup {[sub |-> s, node |-> n, ctx |-> ctx[s],
                                   streaming |-> task.streaming]}
            /\ attempt' = [attempt EXCEPT ![s] = 0]
            /\ excluded' = [excluded EXCEPT ![s] = {}]
            /\ UNCHANGED <<cb, ctx>>
            /\ IF ctx[s] = "init"
               THEN /\ assignments' = [assignments EXCEPT ![s] = n]
                    /\ InitContinue(s, [assignments EXCEPT ![s] = n])
               ELSE /\ spc' = [spc EXCEPT ![s] = "wait2"]
                    /\ UNCHANGED <<assignments, task, tpc, pending, stream>>
       ELSE IF attempt[s] < MAX_RETRIES - 1
       THEN \* send failed, the loop goes on
            /\ sub' = [sub EXCEPT ![s] = AssignSubtask(@, n)]
            /\ cb' = [cb EXCEPT ![n] = RecordFailure(@)]
            /\ excluded' = [excluded EXCEPT ![s] = ExcludeAfterFailure(@, n)]
            /\ attempt' = [attempt EXCEPT ![s] = @ + 1]
            /\ spc' = [spc EXCEPT ![s] = "select"]
            /\ UNCHANGED <<load, task, tpc, ctx, assignments, pending, stream, sent>>
       ELSE \* send failed in the last iteration: (False, None)
            /\ cb' = [cb EXCEPT ![n] = RecordFailure(@)]
            /\ attempt' = [attempt EXCEPT ![s] = 0]
            /\ excluded' = [excluded EXCEPT ![s] = {}]
            /\ UNCHANGED <<load, assignments, sent>>
            /\ IF ctx[s] = "init"
               THEN /\ sub' = [sub EXCEPT ![s] = FailSubtask(AssignSubtask(@, n), "failed")]
                    /\ ctx' = ctx
                    /\ InitContinue(s, assignments)
               ELSE /\ sub' = [sub EXCEPT ![s] = FailSubtask(AssignSubtask(@, n), "timeout")]
                    /\ ctx' = [ctx EXCEPT ![s] = "init"]
                    /\ spc' = [spc EXCEPT ![s] = "done"]
                    /\ UNCHANGED <<task, tpc, pending, stream>>

\* ------------------------------------------------ _wait_for_single_subtask
\* the event was set: wait_for returns, the waiter returns "completed" or "reassigned"
WaitSignalled(s) ==
    /\ UNCHANGED <<repVars, extVars>>
    /\ spc[s] \in {"wait1", "wait2"}
    /\ pending[s] = "set"
    /\ spc' = [spc EXCEPT ![s] = "done"]
    /\ ctx' = [ctx EXCEPT ![s] = "init"]
    /\ UNCHANGED <<regVars, taskVars, sub, attempt, excluded, avail,
                   assignments, pending, stream, histVars>>

ReassignWaitHasTimeout_Unbounded == FALSE

\* the second wait_for (line 772) is bounded by reassign_timeout
ReassignWaitHasTimeout == TRUE

\* The first wait timed out: _try_reassign_subtask records the failure of the
\* node found in assignments, decrements its load and starts a new
\* _assign_subtask_with_retry that excludes it.
WaitTimeout(s) ==
    /\ UNCHANGED <<repVars, extVars>>
    /\ spc[s] = "wait1"
    /\ pending[s] = "clear"
    /\ LET failed == assignments[s] IN
       /\ cb' = IF failed # None THEN [cb EXCEPT ![failed] = RecordFailure(@)] ELSE cb
       /\ load' = IF failed # None THEN DecrementLoad(load, failed) ELSE load
       /\ excluded' = [excluded EXCEPT ![s] = IF failed # None THEN {failed} ELSE {}]
    /\ ctx' = [ctx EXCEPT ![s] = "re"]
    /\ attempt' = [attempt EXCEPT ![s] = 0]
    /\ spc' = [spc EXCEPT ![s] = "select"]
    /\ UNCHANGED <<connected, vision, validKey, fresh, broken, conn>>
    /\ UNCHANGED <<taskVars, sub, avail, assignments, pending, stream, histVars>>

\* The wait after a reassignment timed out: the subtask is marked Timeout.
ReassignWaitTimeout(s) ==
    /\ UNCHANGED <<repVars, extVars>>
    /\ spc[s] = "wait2"
    /\ pending[s] = "clear"
    /\ ReassignWaitHasTimeout
    /\ sub' = [sub EXCEPT ![s] = FailSubtask(@, "timeout")]
    /\ spc' = [spc EXCEPT ![s] = "done"]
    /\ ctx' = [ctx EXCEPT ![s] = "init"]
    /\ UNCHANGED <<regVars, taskVars, attempt, excluded, avail,
                   assignments, pending, stream, histVars>>

\* the status _process_task writes after _wait_for_completion (lines 299-303)
FinalStatus == "completed"

\* gather returned: the events are removed, the aggregator runs and the final
\* status is written together with final_response.
Finalize ==
    /\ UNCHANGED <<repVars, extVars>>
    /\ tpc = "wait"
    /\ \A s \in 1..nsub : spc[s] = "done"
    /\ pending' = [s \in Subs |-> IF s <= nsub THEN "absent" ELSE pending[s]]
    /\ task' = [UpdateTaskStatus(task, FinalStatus) EXCEPT !.final = TRUE]
    /\ tpc' = "done"
    /\ UNCHANGED <<regVars, nsub, sub, spc, ctx, attempt, excluded, avail,
                   assignments, stream, histVars>>

\* ------------------------------------------------------- frames of workers
\* A worker can name the subtasks it received in a TASK_ASSIGN: their ids
\* are random and reach a worker in no other way.
KnownSubs(n) == {r.sub : r \in {x \in sent : x.node = n}}

\* the body of handle_task_result(node_id = n) for subtask s; ok: the response decrypts
TaskResult(n, s, ok) ==
    /\ frames < MaxFrames
    /\ n \in connected /\ ~broken[n]
    /\ s \in KnownSubs(n)
    /\ IF ok /\ validKey[n]
       THEN /\ frames' = frames + 1
            /\ sub' = [sub EXCEPT ![s] = CompleteSubtask(@)]
            /\ pending' = [pending EXCEPT ![s] = IF @ = "absent" THEN @ ELSE "set"]
            /\ load' = DecrementLoad(load, n)
            /\ cb' = [cb EXCEPT ![n] = RecordSuccess(@)]
            /\ stream' = CompleteStream(stream, "done")
       ELSE \* decrypt_from_node raises: the handler only logs
            UNCHANGED <<sub, pending, load, cb, stream, frames>>
    /\ UNCHANGED <<connected, vision, validKey, fresh, broken, conn>>
    /\ UNCHANGED <<taskVars, spc, ctx, attempt, excluded, avail, assignments, sent>>

\* handle_task_result(node_id = n) for subtask s
HandleTaskResult(n, s, ok) ==
    /\ UNCHANGED <<repVars, extVars>>
    /\ TaskResult(n, s, ok)

\* handle_task_result with the frame it was called for kept in handled
HandleTaskResultSeen(n, s, ok) ==
    /\ UNCHANGED <<repVars, admVars, apiVars, hubVars, selVars, heard, trail>>
    /\ TaskResult(n, s, ok)
    /\ handled' = [node |-> n, sub |-> s, decrypted |-> ok /\ validKey[n]]

\* handle_task_error(node_id = n) for subtask s
HandleTaskError(n, s) ==
    /\ UNCHANGED <<repVars, extVars>>
    /\ frames < MaxFrames
    /\ n \in connected /\ ~broken[n]
    /\ s \in KnownSubs(n)
    /\ frames' = frames + 1
    /\ sub' = [sub EXCEPT ![s] = FailSubtask(@, "failed")]
    /\ pending' = [pending EXCEPT ![s] = IF @ = "absent" THEN @ ELSE "set"]
    /\ load' = DecrementLoad(load, n)
    /\ cb' = [cb EXCEPT ![n] = RecordFailure(@)]
    /\ stream' = CompleteStream(stream, "error")
    /\ UNCHANGED <<connected, vision, validKey, fresh, broken, conn>>
    /\ UNCHANGED <<taskVars, spc, ctx, attempt, excluded, avail, assignments, sent>>

\* handle_task_stream(node_id = n); ok: the chunk decrypts.  No code of the
\* coordinator calls this method (see ReceiveTaskStream).
HandleTaskStream(n, s, ok) ==
    /\ UNCHANGED <<repVars, extVars>>
    /\ frames < MaxFrames
    /\ n \in connected /\ ~broken[n]
    /\ s \in KnownSubs(n)
    /\ stream' = IF ok /\ validKey[n] THEN PushChunk(stream) ELSE stream
    /\ frames' = IF stream' # stream THEN frames + 1 ELSE frames
    /\ UNCHANGED <<regVars, taskVars, subVars, sent>>

\* websocket_node receives a TASK_STREAM frame of worker n for subtask s: no
\* branch of its dispatch names the type, so the frame ends in the else
\* branch, which logs unknown_message_type and goes on with the next frame.
TaskStreamFrame(n, s) ==
    /\ n \in connected /\ ~broken[n]
    /\ s \in KnownSubs(n)
    /\ UNCHANGED <<orchVars, repVars, admVars, apiVars, hubVars, selVars, handled, trail>>

ReceiveTaskStream(n, s) ==
    /\ TaskStreamFrame(n, s)
    /\ UNCHANGED heard

\* the same with the frame counted in heard
ReceiveTaskStreamSeen(n, s) ==
    /\ heard < MaxFrames
    /\ TaskStreamFrame(n, s)
    /\ heard' = heard + 1

\* ------------------------------------------------------------ environment
\* handle_disconnect: del self._nodes[n].  What the model remembers of the
\* removed record is never read again before the next registration of n.
RegistryRemove(n) ==
    /\ connected' = connected \ {n}
    /\ conn' = [conn EXCEPT ![n] = NoConn]
    /\ UNCHANGED <<vision, validKey, fresh, broken, load, cb>>

\* handle_disconnect: the receive loop of the channel of n ended, after a send
\* on it failed or after the worker, which was sent work, closed it.  A worker
\* that leaves before it was sent anything is a worker the registry starts without.
HandleDisconnect(n) ==
    /\ UNCHANGED <<repVars, extVars>>
    /\ n \in connected
    /\ broken[n] \/ KnownSubs(n) # {}
    /\ RegistryRemove(n)
    /\ UNCHANGED <<taskVars, subVars, stream, histVars>>

\* CIRCUIT_BREAKER_RECOVERY_TIMEOUT passes after the last failure of n
RecoveryTimeoutElapses(n) ==
    /\ UNCHANGED <<repVars, extVars>>
    /\ cb[n].state = "open"
    /\ ~cb[n].elapsed
    /\ cb' = [cb EXCEPT ![n].elapsed = TRUE]
    /\ UNCHANGED <<connected, vision, validKey, fresh, broken, load, conn>>
    /\ UNCHANGED <<taskVars, subVars, stream, histVars>>

\* cleanup_old_streams, called when the session is older than _task_ttl.
\* Nothing in the coordinator schedules this coroutine; it is an operation of
\* the StreamingManager that its owner may call.
CleanupOldStreams ==
    /\ UNCHANGED <<repVars, extVars>>
    /\ stream.exists
    /\ stream' = NoStream
    /\ UNCHANGED <<regVars, taskVars, subVars, histVars>>

\* ------------------------------------------------------ reputation engine
\* Reputations are counted in 1/WEEKLY_DECAY_DIVISOR of a point, so that the
\* weekly decay of a whole number of points is exact.
Max(a, b) == IF a >= b THEN a ELSE b

Points(p) == p * WEEKLY_DECAY_DIVISOR

NewReputation_NoFloor(current, change) == current + change

\* new_reputation of _update_reputation (line 79)
NewReputation(current, change) == Max(Points(MIN_REPUTATION), current + change)

\* new_reputation of apply_weekly_decay (line 234)
DecayedReputation(current, d) == Max(Points(MIN_REPUTATION), current - d)

\* A call of _update_reputation(n, change, reason) begins.  It first awaits
\* get_reputation, so nothing is read in this step.  ms is the
\* execution_time_ms the caller was given (0 for the events that have none).
BeginUpdate(n, change, reason, ms) ==
    /\ events < MaxEvents
    /\ events' = events + 1
    /\ upd' = Append(upd, [node |-> n, change |-> change, reason |-> reason, ms |-> ms,
                           pc |-> "read", current |-> 0])
    /\ UNCHANGED <<reputation, decay, replog, orchVars, extVars>>

IsFast_Inclusive(execution_time_ms) == execution_time_ms <= FAST_THRESHOLD_MS

\* record_task_completed: execution_time_ms < threshold_ms
IsFast(execution_time_ms) == execution_time_ms < FAST_THRESHOLD_MS

RecordTaskCompleted(n, execution_time_ms) ==
    IF IsFast(execution_time_ms)
    THEN BeginUpdate(n, Points(TASK_COMPLETED_POINTS + TASK_FAST_BONUS), "task_fast",
                     execution_time_ms)
    ELSE BeginUpdate(n, Points(TASK_COMPLETED_POINTS), "task_completed", execution_time_ms)

RecordTaskTimeout(n) == BeginUpdate(n, Points(TASK_TIMEOUT_PENALTY), "task_timeout", 0)

\* invalid: error_code is INVALID_RESPONSE or DECRYPTION_FAILED
RecordTaskFailed(n, invalid) ==
    IF invalid
    THEN BeginUpdate(n, Points(TASK_INVALID_PENALTY), "task_invalid", 0)
    ELSE BeginUpdate(n, Points(TASK_TIMEOUT_PENALTY), "task_timeout", 0)

RecordUptimeHour(n) == BeginUpdate(n, Points(UPTIME_HOUR_BONUS), "uptime_hour", 0)

RecordBrokenPromise(n, hours) ==
    BeginUpdate(n, Points(UPTIME_BROKEN_PENALTY * hours), "uptime_broken", 0)

\* get_reputation returns to the i-th call in progress
GetReputation(i) ==
    /\ i \in 1..Len(upd)
    /\ upd[i].pc = "read"
    /\ upd' = [upd EXCEPT ![i].pc = "write", ![i].current = reputation[upd[i].node]]
    /\ UNCHANGED <<reputation, decay, events, replog, orchVars, extVars>>

\* db.update_node_reputation of the i-th call in progress
UpdateNodeReputation(i) ==
    /\ i \in 1..Len(upd)
    /\ upd[i].pc = "write"
    /\ reputation' = [reputation EXCEPT
                        ![upd[i].node] = NewReputation(upd[i].current, upd[i].change)]
    /\ upd' = [upd EXCEPT ![i].pc = "log"]
    /\ UNCHANGED <<decay, events, replog, orchVars, extVars>>

LogRow(n, change, reason, ms) == [node |-> n, change |-> change, reason |-> reason, ms |-> ms]

\* db.log_reputation_change of the i-th call in progress; the call ends.
\* The ms of a row is not a column of reputation_log: it records the
\* argument of the call that wrote the row.
LogReputationChange(i) ==
    /\ i \in 1..Len(upd)
    /\ upd[i].pc = "log"
    /\ replog' = Append(replog, LogRow(upd[i].node, upd[i].change, upd[i].reason, upd[i].ms))
    /\ upd' = [k \in 1..(Len(upd) - 1) |-> IF k < i THEN upd[k] ELSE upd[k + 1]]
    /\ UNCHANGED <<reputation, decay, events, orchVars, extVars>>

\* apply_weekly_decay begins: get_all_nodes returns the rows
ApplyWeeklyDecayBegin ==
    /\ events < MaxEvents
    /\ ~decay.active
    /\ events' = events + 1
    /\ decay' = [active |-> TRUE, snap |-> reputation, next |-> 1]
    /\ UNCHANGED <<reputation, upd, replog, orchVars, extVars>>

\* One iteration of the loop of apply_weekly_decay.  current * 0.01 is a
\* float: up tells to which side the stored value is rounded here.
ApplyWeeklyDecayNode(up) ==
    /\ decay.active
    /\ LET n == decay.next
           current == decay.snap[n]
           d == (current \div WEEKLY_DECAY_DIVISOR)
                + (IF up /\ current % WEEKLY_DECAY_DIVISOR # 0 THEN 1 ELSE 0)
           new == DecayedReputation(current, d)
       IN /\ reputation' = IF new # current THEN [reputation EXCEPT ![n] = new]
                           ELSE reputation
          /\ replog' = IF new # current
                       THEN Append(replog, LogRow(n, 0 - d, "weekly_decay", 0))
                       ELSE replog
          /\ decay' = IF n = NumNodes THEN NoDecay ELSE [decay EXCEPT !.next = n + 1]
    /\ UNCHANGED <<upd, events, orchVars, extVars>>

\* -------------------------------------------------------------- accounts
\* AccountKeyGenerator.validate_format: 16 digits after normalization
ValidateFormat(k) == k \in Keys

\* create_account: a key is generated whose hash no row holds (the column is
\* UNIQUE) and the row is inserted with the default status
CreateAccount(k) ==
    /\ account[k] = "none"
    /\ account' = [account EXCEPT ![k] = "active"]
    /\ UNCHANGED <<token, chan, row, ack, vres, regs>>
    /\ UNCHANGED <<orchVars, repVars, restVars>>

\* suspend_account / reactivate_account: an UPDATE of the status of the row
UpdateAccountStatus(k, st) ==
    /\ account[k] \notin {"none", st}
    /\ account' = [account EXCEPT ![k] = st]
    /\ UNCHANGED <<token, chan, row, ack, vres, regs>>
    /\ UNCHANGED <<orchVars, repVars, restVars>>

SuspendAccount(k) == UpdateAccountStatus(k, "suspended")

ReactivateAccount(k) == UpdateAccountStatus(k, "active")

AccountUsable_IgnoresStatus(k) == ValidateFormat(k) /\ account[k] # "none"

\* the checks verify_account and handle_register make on the row read by
\* get_account_by_key_hash: the format, the row, its status
AccountUsable(k) ==
    /\ ValidateFormat(k)
    /\ account[k] # "none"
    /\ account[k] = "active"

\* verify_account(k); update_account_activity only writes last_activity_at
VerifyAccount(k) ==
    /\ vres' = [key |-> k, ok |-> AccountUsable(k)]
    /\ UNCHANGED <<account, token, chan, row, ack, regs>>
    /\ UNCHANGED <<orchVars, repVars, restVars>>

\* ------------------------------------------------------ enrollment tokens
\* NodeTokenManager.generate
GenerateToken(t) ==
    /\ ~token[t].issued
    /\ token' = [token EXCEPT ![t] = [NoToken EXCEPT !.issued = TRUE]]
    /\ UNCHANGED <<account, chan, row, ack, vres, regs>>
    /\ UNCHANGED <<orchVars, repVars, restVars>>

\* NodeTokenManager.revoke
RevokeToken(t) ==
    /\ token[t].issued
    /\ ~token[t].revoked
    /\ token' = [token EXCEPT ![t].revoked = TRUE]
    /\ UNCHANGED <<account, chan, row, ack, vres, regs>>
    /\ UNCHANGED <<orchVars, repVars, restVars>>

\* NodeTokenManager.validate: the row exists, is not revoked and was not used
TokenValid(t) ==
    /\ t \in Tokens
    /\ token[t].issued
    /\ ~token[t].revoked
    /\ token[t].used_by = None

\* NodeTokenManager.is_node_enrolled: some row names the node in used_by_node_id
IsNodeEnrolled(n) == \E t \in Tokens : token[t].used_by = n

\* ------------------------------------------------------------ registration
\* the reply of a rejected registration: the REGISTER_ACK is sent,
\* handle_register returns None, websocket_node assigns it to node_id, closes
\* the channel and returns; finally finds node_id empty
Reject(c, message) ==
    /\ ack' = [ack EXCEPT ![c] = [success |-> FALSE, message |-> message]]
    /\ chan' = [chan EXCEPT ![c] = ClosedChannel]
    /\ UNCHANGED <<token, regVars, row>>

\* handle_register gets past the authentication with account_id acct and the
\* consumed token tok
Proceed(c, n, acct, tok, x) ==
    /\ chan' = [chan EXCEPT ![c].pc = "commit",
                            ![c].reg = [node |-> n, acct |-> acct, tok |-> tok,
                                        payload |-> x]]
    /\ token' = IF tok # None THEN [token EXCEPT ![tok].used_by = n] ELSE token
    /\ UNCHANGED <<regVars, row, ack>>

\* validate returned valid: handle_register awaits consume next
Validated(c, n, t, x) ==
    /\ chan' = [chan EXCEPT ![c].pc = "consume",
                            ![c].reg = [node |-> n, acct |-> None, tok |-> t, payload |-> x]]
    /\ UNCHANGED <<token, regVars, row, ack>>

ConsumeApplies_AnyRow(t) == token[t].issued

\* the WHERE clause of the UPDATE of NodeTokenManager.consume
ConsumeApplies(t) ==
    /\ token[t].issued
    /\ token[t].used_by = None
    /\ ~token[t].revoked

\* NodeTokenManager.consume as handle_register calls it for the registration
\* pending on channel c: one UPDATE, then rowcount decides
RegisterConsume(c) ==
    /\ chan[c].pc = "consume"
    /\ UNCHANGED <<account, vres, regs>>
    /\ UNCHANGED <<taskVars, subVars, stream, histVars, repVars, restVars>>
    /\ LET r == chan[c].reg
       IN IF ConsumeApplies(r.tok)
          THEN Proceed(c, r.node, None, r.tok, r.payload)
          ELSE Reject(c, "consume_failed")

\* A NODE_REGISTER frame of channel c: node_id n, account_key k,
\* enrollment_token t, capabilities x.  handle_register up to the lock.
RegisterAuthenticate(c, n, k, t, x) ==
    /\ chan[c].pc = "recv"
    /\ regs < MaxRegs
    /\ regs' = regs + 1
    /\ UNCHANGED <<account, vres>>
    /\ UNCHANGED <<taskVars, subVars, stream, histVars, repVars, restVars>>
    /\ IF k # None
       THEN IF ~ValidateFormat(k) THEN Reject(c, "format")
            ELSE IF account[k] = "none" THEN Reject(c, "not_found")
            ELSE IF ~AccountUsable(k) THEN Reject(c, "inactive")
            ELSE Proceed(c, n, k, None, x)
       ELSE IF IsNodeEnrolled(n) THEN Proceed(c, n, None, None, x)
            ELSE IF t = None THEN Reject(c, "no_credentials")
            ELSE IF ~TokenValid(t) THEN Reject(c, "invalid_token")
            ELSE Validated(c, n, t, x)

\* The registry after self._nodes[n] = ConnectedNode(...) for channel c: a
\* new record with load 0, a heartbeat of now and the websocket of c.
RegistryInsert(c, n, x) ==
    /\ connected' = connected \cup {n}
    /\ conn' = [conn EXCEPT ![n] = ConnectedNodeOf(c, x)]
    /\ vision' = [vision EXCEPT ![n] = x.vision]
    /\ validKey' = [validKey EXCEPT ![n] = x.validKey]
    /\ fresh' = [fresh EXCEPT ![n] = TRUE]
    /\ broken' = [broken EXCEPT ![n] = FALSE]
    /\ load' = [load EXCEPT ![n] = 0]
    /\ UNCHANGED cb

\* db.create_node is an upsert that leaves account_id alone; link_node_to_account
\* writes it when the registration was authenticated by an account key
NodeRowOf(old, acct, x) ==
    [vram |-> x.vram, params |-> x.params, tps |-> x.tps,
     tier |-> CalculateNodeTier(x.vram, x.params, x.tps),
     account |-> IF acct # None THEN acct ELSE old.account]

\* handle_register from the lock on.  raises: "no", or the call at which an
\* exception leaves the try block ("create_node": before anything is written,
\* as when a field of the payload is missing or the store fails; "ack": the
\* send of the REGISTER_ACK fails).  After an exception handle_register
\* returns None without a reply and websocket_node closes the channel.
RegisterCommit(c, raises) ==
    /\ chan[c].pc = "commit"
    /\ UNCHANGED <<account, token, vres, regs>>
    /\ UNCHANGED <<taskVars, subVars, stream, histVars, repVars, restVars>>
    /\ LET r == chan[c].reg
           n == r.node
       IN IF raises = "create_node"
          THEN \* a reconnecting node already had its websocket replaced (line 487)
               /\ conn' = IF n \in connected THEN [conn EXCEPT ![n].ws = c] ELSE conn
               /\ broken' = IF n \in connected THEN [broken EXCEPT ![n] = FALSE] ELSE broken
               /\ chan' = [chan EXCEPT ![c] = ClosedChannel]
               /\ UNCHANGED <<connected, vision, validKey, fresh, load, cb, row, ack>>
          ELSE /\ row' = [row EXCEPT ![n] = NodeRowOf(@, r.acct, r.payload)]
               /\ RegistryInsert(c, n, r.payload)
               /\ IF raises = "ack"
                  THEN /\ chan' = [chan EXCEPT ![c] = ClosedChannel]
                       /\ UNCHANGED ack
                  ELSE /\ chan' = [chan EXCEPT ![c] = [pc |-> "recv", node_id |-> n,
                                                       reg |-> NoReg]]
                       /\ ack' = [ack EXCEPT ![c] = [success |-> TRUE, message |-> "none"]]

\* The channel c is lost or the worker sends NODE_DISCONNECT: the loop of
\* websocket_node ends and finally calls handle_disconnect(node_id).
ChannelClose(c) ==
    /\ chan[c].pc = "recv"
    /\ chan' = [chan EXCEPT ![c] = ClosedChannel]
    /\ IF chan[c].node_id # None /\ chan[c].node_id \in connected
       THEN RegistryRemove(chan[c].node_id)
       ELSE UNCHANGED regVars
    /\ UNCHANGED <<account, token, row, ack, vres, regs>>
    /\ UNCHANGED <<taskVars, subVars, stream, histVars, repVars, restVars>>

\* handle_heartbeat(node_id = n) with current_load l and tokens_per_second t
\* (None when the frame carries none).  The payload is parsed as it comes:
\* current_load is an int without a range.
HandleHeartbeat(n, l, t) ==
    IF n \in connected
    THEN /\ fresh' = [fresh EXCEPT ![n] = TRUE]
         /\ load' = [load EXCEPT ![n] = l]
         /\ conn' = IF t # None /\ t > 0 THEN [conn EXCEPT ![n].tps = t] ELSE conn
         /\ UNCHANGED <<connected, vision, validKey, broken, cb>>
    ELSE UNCHANGED regVars

\* a NODE_HEARTBEAT frame of channel c: websocket_node passes its local node_id
HeartbeatFrame(c, l, t) ==
    /\ chan[c].pc = "recv"
    /\ chan[c].node_id # None
    /\ HandleHeartbeat(chan[c].node_id, l, t)
    /\ UNCHANGED admVars
    /\ UNCHANGED <<taskVars, subVars, stream, histVars, repVars, restVars>>

\* the capabilities of the registrations of AdmSpec
AdmPayloads == {Payload(24, 70, 50, FALSE, TRUE)}

AdmNext ==
    \/ \E k \in Keys : CreateAccount(k)
    \/ \E k \in Keys : SuspendAccount(k)
    \/ \E k \in Keys : ReactivateAccount(k)
    \/ \E k \in KeyInputs : VerifyAccount(k)
    \/ \E t \in Tokens : GenerateToken(t)
    \/ \E t \in Tokens : RevokeToken(t)
    \/ \E c \in Chans, n \in Nodes, k \in KeyInputs, t \in TokenInputs, x \in AdmPayloads :
          RegisterAuthenticate(c, n, k, t, x)
    \/ \E c \in Chans : RegisterConsume(c)
    \/ \E c \in Chans, raises \in {"no", "create_node", "ack"} : RegisterCommit(c, raises)
    \/ \E c \in Chans : ChannelClose(c)

\* admission alone: accounts, enrollment tokens and the worker channels
AdmInit == EmptyRegistry /\ InitTask /\ InitReputation /\ InitExt

AdmSpec == AdmInit /\ [][AdmNext]_vars

\* ---------------------------------------------------- tiers at registration
\* the capability triples made of every threshold of calculate_node_tier and
\* of a value below the lowest one
TierPayloads ==
    {Payload(v, p, t, FALSE, TRUE) :
        v \in {7, 8, 12, 16, 24},
        p \in {2, 3, 7, 13, 30, 70, 100},
        t \in {9, 10, 20, 50}}

\* One worker with an account key registers again and again on its channel
\* with any capabilities, and reports its measured speed in heartbeats.
TierNext ==
    \/ \E k \in Keys : CreateAccount(k)
    \/ \E k \in Keys, x \in TierPayloads : RegisterAuthenticate(1, 1, k, None, x)
    \/ RegisterCommit(1, "no")
    \/ \E t \in {None, 50} : HeartbeatFrame(1, 0, t)

TierSpec == AdmInit /\ [][TierNext]_vars

\* ------------------------------------------------------------------- Next
Orchestration ==
    \/ \E k \in 1..MaxSubtasks : ProcessTaskStart(k)
    \/ \E s \in Subs : Select(s)
    \/ \E s \in Subs, n \in Nodes, wire \in BOOLEAN : Send(s, n, wire)
    \/ \E s \in Subs : WaitSignalled(s)
    \/ \E s \in Subs : WaitTimeout(s)
    \/ \E s \in Subs : ReassignWaitTimeout(s)
    \/ Finalize

Next ==
    \/ \E images \in BOOLEAN, streaming \in BOOLEAN : CreateTask(images, streaming)
    \/ Orchestration
    \/ \E n \in Nodes, s \in Subs, ok \in BOOLEAN : HandleTaskResult(n, s, ok)
    \/ \E n \in Nodes, s \in Subs : HandleTaskError(n, s)
    \/ \E n \in Nodes, s \in Subs : ReceiveTaskStream(n, s)
    \/ \E n \in Nodes : HandleDisconnect(n)
    \/ \E n \in Nodes : RecoveryTimeoutElapses(n)
    \/ CleanupOldStreams

Spec == Init /\ [][Next]_vars

\* The event loop runs every coroutine that is ready and every timer fires:
\* a step of the orchestration that stays possible is eventually taken.
\* Nothing schedules cleanup_old_streams and nothing obliges a worker to
\* send a frame, so those steps carry no fairness.
FairSpec == Init /\ [][Next]_vars /\ WF_vars(Orchestration)

\* ------------------------------------------------------------ REST: tasks
\* POST /inference: create_task inserts the row under a fresh uuid with the
\* authenticated user's id; the status column defaults to pending.
ApiInference(u, tid) ==
    /\ tasks[tid] = NoTask
    /\ tasks' = [tasks EXCEPT ![tid] = [user_id |-> u, status |-> "pending", final_response |-> "none"]]
    /\ UNCHANGED <<reply, orchVars, repVars, admVars, hubVars, selVars, obsVars>>

\* Database.update_task_status as _process_task calls it: PROCESSING, then
\* COMPLETED with the final response or FAILED without one.
ProcessTaskWrites(tid, st) ==
    /\ \/ tasks[tid].status = "pending" /\ st = "processing"
       \/ tasks[tid].status = "processing" /\ st \in {"completed", "failed"}
    /\ tasks' = [tasks EXCEPT ![tid].status = st,
                              ![tid].final_response = IF st = "completed" THEN "text" ELSE @]
    /\ UNCHANGED <<reply, orchVars, repVars, admVars, hubVars, selVars, obsVars>>

Authorized_Anyone(t, u) == TRUE

\* api_get_task: task["user_id"] != user.id raises 403
Authorized(t, u) == t.user_id = u

\* GET /inference/{task_id} by the authenticated user u
ApiGetTask(u, tid) ==
    /\ reply' = IF tasks[tid] = NoTask
                THEN [user |-> u, task_id |-> tid, code |-> 404, status |-> "none", response |-> "none"]
                ELSE IF ~Authorized(tasks[tid], u)
                THEN [user |-> u, task_id |-> tid, code |-> 403, status |-> "none", response |-> "none"]
                ELSE [user |-> u, task_id |-> tid, code |-> 200,
                      status |-> tasks[tid].status, response |-> tasks[tid].final_response]
    /\ UNCHANGED <<tasks, orchVars, repVars, admVars, hubVars, selVars, obsVars>>

ApiNext ==
    \/ \E u \in Users, tid \in TaskIds : ApiInference(u, tid)
    \/ \E tid \in TaskIds, st \in {"processing", "completed", "failed"} : ProcessTaskWrites(tid, st)
    \/ \E u \in Users, tid \in TaskIds : ApiGetTask(u, tid)

ApiSpec == AdmInit /\ [][ApiNext]_vars

\* -------------------------------------------- one stream session, by content
\* The queue items as the code builds them: {"type": ..., "content": ...}.
Item(type, content) == [type |-> type, content |-> content]

PushContent_Front(st, chunk) ==
    IF ~st.exists THEN st ELSE [st EXCEPT !.queue = <<Item("chunk", chunk)>> \o st.queue]

\* push_chunk: queue.put of an unbounded asyncio.Queue appends and never waits
PushContent(st, chunk) ==
    IF ~st.exists THEN st ELSE [st EXCEPT !.queue = Append(st.queue, Item("chunk", chunk))]

\* complete_stream with the content of the sentinel left out
CompleteContent(st, kind) ==
    IF ~st.exists THEN st
    ELSE [st EXCEPT !.is_complete = TRUE, !.queue = Append(st.queue, Item(kind, 0))]

otherVars == <<regVars, taskVars, subVars, histVars, repVars, admVars, apiVars, selVars, obsVars>>

StreamCreate ==
    /\ ~stream.exists
    /\ stream' = CreateStream(stream)
    /\ UNCHANGED <<hubVars, otherVars>>

StreamPush(chunk) ==
    /\ Len(stream.queue) + Len(got) < MaxItems
    /\ stream' = PushContent(stream, chunk)
    /\ pushed' = IF stream.exists THEN Append(pushed, chunk) ELSE pushed
    /\ UNCHANGED <<got, otherVars>>

StreamComplete(kind) ==
    /\ Len(stream.queue) + Len(got) < MaxItems
    /\ stream' = CompleteContent(stream, kind)
    /\ UNCHANGED <<hubVars, otherVars>>

\* The subscriber of the session: takes the item at the head of the queue
\* until it has taken a done or error item.
SubscriberGet ==
    /\ stream.exists
    /\ stream.queue # <<>>
    /\ \A i \in 1..Len(got) : got[i].type = "chunk"
    /\ got' = Append(got, Head(stream.queue))
    /\ stream' = [stream EXCEPT !.queue = Tail(@)]
    /\ UNCHANGED <<pushed, otherVars>>

StreamNext ==
    \/ StreamCreate
    \/ \E chunk \in Chunks : StreamPush(chunk)
    \/ \E kind \in {"done", "error"} : StreamComplete(kind)
    \/ SubscriberGet

StreamSpec == AdmInit /\ [][StreamNext]_vars

\* ------------------------------------------------- the selection functions
\* calculate_score of select_nodes_v3: tps = max(tokens_per_second, 1.0),
\* expected_delay = current_load / tps, delay_score = 1 / (1 + expected_delay).
\* The division raises ZeroDivisionError exactly when current_load = -tps.
ScoreRaises(n) ==
    LET tps == IF conn[n].tps > 1 THEN conn[n].tps ELSE 1
    IN load[n] = 0 - tps

Outcome(raised, nodes) == [raised |-> raised, nodes |-> nodes]

\* The loop of select_nodes_v3 with k iterations left: every list it can end
\* with.  random.sample draws any pair; the random term of the score lets
\* either node of the pair win.
RECURSIVE PowerOfTwoChoices(_, _, _)
PowerOfTwoChoices(candidates, k, sel) ==
    IF k = 0 \/ candidates = {} THEN {Outcome(FALSE, sel)}
    ELSE IF Cardinality(candidates) = 1
    THEN LET c == CHOOSE c \in candidates : TRUE
         IN PowerOfTwoChoices({}, k - 1, Append(sel, c))
    ELSE UNION {IF ScoreRaises(pair[1]) \/ ScoreRaises(pair[2])
                THEN {Outcome(TRUE, <<>>)}
                ELSE UNION {PowerOfTwoChoices(candidates \ {best}, k - 1, Append(sel, best)) :
                            best \in {pair[1], pair[2]}} :
                pair \in {p \in candidates \X candidates : p[1] # p[2]}}

\* the lists of k distinct members of S
Arrangements(S, k) ==
    {q \in [1..k -> S] : \A i \in 1..k, j \in 1..k : i # j => q[i] # q[j]}

Min(a, b) == IF a < b THEN a ELSE b

\* select_nodes_v3(difficulty, n, exclude)
SelectNodesV3(n, exclude) ==
    LET asked == {m \in connected : m \notin exclude /\ IsOnline(m)}
        available == AvailableV3(exclude)
    IN /\ \E r \in PowerOfTwoChoices(available, Min(n, Cardinality(available)), <<>>) :
              selected' = [fn |-> "v3", n |-> n, exclude |-> exclude, cand |-> available,
                           raised |-> r.raised, nodes |-> r.nodes]
       /\ cb' = [m \in Nodes |-> IF m \in asked THEN AfterIsAvailable(cb[m]) ELSE cb[m]]
       /\ UNCHANGED <<connected, vision, validKey, fresh, broken, load, conn>>
       /\ UNCHANGED <<taskVars, subVars, stream, histVars, repVars, admVars, apiVars, hubVars, obsVars>>

\* select_nodes(n, exclude): all of available when there are at most n, else
\* the n best of a score with a random term
SelectNodes(n, exclude) ==
    LET available == {m \in connected : m \notin exclude /\ IsOnline(m)}
    IN /\ \E q \in Arrangements(available, Min(n, Cardinality(available))) :
              selected' = [fn |-> "v1", n |-> n, exclude |-> exclude, cand |-> available,
                           raised |-> FALSE, nodes |-> q]
       /\ UNCHANGED <<regVars, taskVars, subVars, stream, histVars, repVars, admVars, apiVars, hubVars, obsVars>>

\* a NODE_HEARTBEAT of the registered worker n
NodeHeartbeat(n, l) ==
    /\ n \in connected
    /\ HandleHeartbeat(n, l, None)
    /\ UNCHANGED <<taskVars, subVars, stream, histVars, repVars, extVars>>

\* the heartbeat of n becomes HEARTBEAT_TIMEOUT old
HeartbeatOverdue(n) ==
    /\ n \in connected
    /\ fresh[n]
    /\ fresh' = [fresh EXCEPT ![n] = FALSE]
    /\ UNCHANGED <<connected, vision, validKey, broken, load, conn, cb>>
    /\ UNCHANGED <<taskVars, subVars, stream, histVars, repVars, extVars>>

\* a TASK_ASSIGN was sent to n
LoadUp(n) ==
    /\ n \in connected
    /\ load[n] < MaxLoad
    /\ load' = IncrementLoad(load, n)
    /\ UNCHANGED <<connected, vision, validKey, fresh, broken, conn, cb>>
    /\ UNCHANGED <<taskVars, subVars, stream, histVars, repVars, extVars>>

\* a result, an error or a timeout of a subtask assigned to n
LoadDown(n) ==
    /\ n \in connected
    /\ load' = DecrementLoad(load, n)
    /\ load' # load
    /\ UNCHANGED <<connected, vision, validKey, fresh, broken, conn, cb>>
    /\ UNCHANGED <<taskVars, subVars, stream, histVars, repVars, extVars>>

\* current_load as an untrusted worker may report it
HeartbeatLoads == {0 - 1, 0, 1}

\* Any set of workers is registered with the default tokens_per_second of
\* NodeRegisterPayload; a breaker may be open from earlier failures.
SelRegistry ==
    /\ connected \in SUBSET Nodes
    /\ vision = [n \in Nodes |-> FALSE]
    /\ validKey = [n \in Nodes |-> TRUE]
    /\ cb \in [Nodes -> {NewBreaker, OpenBreaker}]
    /\ \A n \in Nodes \ connected : cb[n] = NewBreaker
    /\ fresh = [n \in Nodes |-> TRUE]
    /\ broken = [n \in Nodes |-> FALSE]
    /\ load = [n \in Nodes |-> 0]
    /\ conn = [n \in Nodes |-> IF n \in connected
                                THEN ConnectedNodeOf(n, Payload(24, 70, 0, FALSE, TRUE))
                                ELSE NoConn]

SelInit == SelRegistry /\ InitTask /\ InitReputation /\ InitExt

SelNext ==
    \/ \E n \in 1..(NumNodes + 1), exclude \in SUBSET Nodes : SelectNodesV3(n, exclude)
    \/ \E n \in 1..(NumNodes + 1), exclude \in SUBSET Nodes : SelectNodes(n, exclude)
    \/ \E n \in Nodes, l \in HeartbeatLoads : NodeHeartbeat(n, l)
    \/ \E n \in Nodes : HeartbeatOverdue(n)
    \/ \E n \in Nodes : LoadUp(n)
    \/ \E n \in Nodes : LoadDown(n)
    \/ \E n \in Nodes : RecoveryTimeoutElapses(n)

SelSpec == SelInit /\ [][SelNext]_vars

\* ------------------------------------------- a task divided into subtasks
\* Every worker is registered, healthy and answers; no images, no streaming.
PairRegistry ==
    /\ connected = Nodes
    /\ vision = [n \in Nodes |-> FALSE]
    /\ validKey = [n \in Nodes |-> TRUE]
    /\ cb = [n \in Nodes |-> NewBreaker]
    /\ fresh = [n \in Nodes |-> TRUE]
    /\ broken = [n \in Nodes |-> FALSE]
    /\ load = [n \in Nodes |-> 0]
    /\ conn = [n \in Nodes |-> ConnectedNodeOf(n, Payload(24, 70, 50, FALSE, TRUE))]

PairInit == PairRegistry /\ InitTask /\ InitReputation /\ InitExt

\* The orchestration of one task that is divided into NumSubs subtasks, with
\* workers that only send results that decrypt.
PairNext ==
    \/ CreateTask(FALSE, FALSE)
    \/ ProcessTaskStart(NumSubs)
    \/ \E s \in Subs : Select(s)
    \/ \E s \in Subs, n \in Nodes : Send(s, n, TRUE)
    \/ \E s \in Subs : WaitSignalled(s)
    \/ \E s \in Subs : WaitTimeout(s)
    \/ \E s \in Subs : ReassignWaitTimeout(s)
    \/ Finalize
    \/ \E n \in Nodes, s \in Subs : HandleTaskResult(n, s, TRUE)

PairSpec == PairInit /\ [][PairNext]_vars

\* The same task with workers whose results may fail to decrypt; every
\* TASK_RESULT frame handled is kept in handled.
ResultNext ==
    \/ CreateTask(FALSE, FALSE)
    \/ ProcessTaskStart(NumSubs)
    \/ \E s \in Subs : Select(s)
    \/ \E s \in Subs, n \in Nodes : Send(s, n, TRUE)
    \/ \E s \in Subs : WaitSignalled(s)
    \/ \E s \in Subs : WaitTimeout(s)
    \/ \E s \in Subs : ReassignWaitTimeout(s)
    \/ Finalize
    \/ \E n \in Nodes, s \in Subs, ok \in BOOLEAN : HandleTaskResultSeen(n, s, ok)

ResultSpec == PairInit /\ [][ResultNext]_vars

\* The same task when the breaker of worker 1 was opened by three failures
\* and its recovery timeout has passed: the next is_available makes it half_open.
RecoveringRegistry ==
    /\ connected = Nodes
    /\ vision = [n \in Nodes |-> FALSE]
    /\ validKey = [n \in Nodes |-> TRUE]
    /\ cb = [n \in Nodes |-> IF n = 1 THEN [OpenBreaker EXCEPT !.elapsed = TRUE]
                                      ELSE NewBreaker]
    /\ fresh = [n \in Nodes |-> TRUE]
    /\ broken = [n \in Nodes |-> FALSE]
    /\ load = [n \in Nodes |-> 0]
    /\ conn = [n \in Nodes |-> ConnectedNodeOf(n, Payload(24, 70, 50, FALSE, TRUE))]

RecoveringInit == RecoveringRegistry /\ InitTask /\ InitReputation /\ InitExt

RecoveringSpec == RecoveringInit /\ [][PairNext]_vars

\* A streamed task of NumSubs subtasks whose workers send TASK_STREAM frames
\* before their results; every such frame received is counted in heard.
ChunkNext ==
    \/ CreateTask(FALSE, TRUE)
    \/ ProcessTaskStart(NumSubs)
    \/ \E s \in Subs : Select(s)
    \/ \E s \in Subs, n \in Nodes : Send(s, n, TRUE)
    \/ \E s \in Subs : WaitSignalled(s)
    \/ \E s \in Subs : WaitTimeout(s)
    \/ \E s \in Subs : ReassignWaitTimeout(s)
    \/ Finalize
    \/ \E n \in Nodes, s \in Subs : HandleTaskResult(n, s, TRUE)
    \/ \E n \in Nodes, s \in Subs : ReceiveTaskStreamSeen(n, s)

ChunkSpec == PairInit /\ [][ChunkNext]_vars

\* ------------------------------------- the CircuitBreakerManager by itself
\* The calls the orchestrator makes on the breaker of a node, in any order:
\* record_failure (send failed, wait timed out, TASK_ERROR), record_success
\* (TASK_RESULT) and is_available (every selection).
BreakerFrame ==
    UNCHANGED <<connected, vision, validKey, fresh, broken, load, conn,
                taskVars, subVars, stream, histVars, repVars,
                admVars, apiVars, hubVars, selVars, handled, heard>>

CbRecordFailure(n) ==
    /\ Len(trail[n]) < MaxCalls
    /\ cb' = [cb EXCEPT ![n] = RecordFailure(@)]
    /\ trail' = [trail EXCEPT ![n] = Append(@, "failure")]
    /\ BreakerFrame

CbRecordSuccess(n) ==
    /\ Len(trail[n]) < MaxCalls
    /\ cb' = [cb EXCEPT ![n] = RecordSuccess(@)]
    /\ trail' = [trail EXCEPT ![n] = Append(@, "success")]
    /\ BreakerFrame

CbIsAvailable(n) ==
    /\ cb' = [cb EXCEPT ![n] = AfterIsAvailable(@)]
    /\ UNCHANGED trail
    /\ BreakerFrame

BreakerNext ==
    \/ \E n \in Nodes : CbRecordFailure(n)
    \/ \E n \in Nodes : CbRecordSuccess(n)
    \/ \E n \in Nodes : CbIsAvailable(n)
    \/ \E n \in Nodes : RecoveryTimeoutElapses(n)

BreakerSpec == PairInit /\ [][BreakerNext]_vars

\* The same calls in sequences of any length: what bounds the run is the
\* value of the two counters of a breaker, not the number of calls.
CbFailure(n) ==
    /\ cb[n].failure_count < MaxCalls
    /\ cb' = [cb EXCEPT ![n] = RecordFailure(@)]
    /\ UNCHANGED trail
    /\ BreakerFrame

CbSuccess(n) ==
    /\ cb[n].success_count < MaxCalls
    /\ cb' = [cb EXCEPT ![n] = RecordSuccess(@)]
    /\ UNCHANGED trail
    /\ BreakerFrame

HealNext ==
    \/ \E n \in Nodes : CbFailure(n)
    \/ \E n \in Nodes : CbSuccess(n)
    \/ \E n \in Nodes : CbIsAvailable(n)
    \/ \E n \in Nodes : RecoveryTimeoutElapses(n)

HealSpec == PairInit /\ [][HealNext]_vars

\* ------------------------------------------ registrations of loaded workers
\* Workers with an account key register, and register again, on any channel
\* while subtasks are assigned to them and answered.
ReRegNext ==
    \/ \E k \in Keys : CreateAccount(k)
    \/ \E c \in Chans, n \in Nodes, k \in Keys, x \in AdmPayloads :
          RegisterAuthenticate(c, n, k, None, x)
    \/ \E c \in Chans : RegisterCommit(c, "no")
    \/ \E n \in Nodes : LoadUp(n)
    \/ \E n \in Nodes : LoadDown(n)

ReRegSpec == AdmInit /\ [][ReRegNext]_vars

\* the coordinator when heartbeats of registered workers are overdue
StaleInit == StaleRegistry /\ InitTask /\ InitReputation /\ InitExt

StaleSpec == StaleInit /\ [][Next]_vars

\* execution times on both sides of FAST_THRESHOLD_MS
ExecutionTimes == {FAST_THRESHOLD_MS - 1, FAST_THRESHOLD_MS}

RepNext ==
    \/ \E n \in Nodes, ms \in ExecutionTimes : RecordTaskCompleted(n, ms)
    \/ \E n \in Nodes : RecordTaskTimeout(n)
    \/ \E n \in Nodes, invalid \in BOOLEAN : RecordTaskFailed(n, invalid)
    \/ \E n \in Nodes : RecordUptimeHour(n)
    \/ \E n \in Nodes, hours \in 1..MaxHours : RecordBrokenPromise(n, hours)
    \/ \E i \in 1..MaxEvents : GetReputation(i)
    \/ \E i \in 1..MaxEvents : UpdateNodeReputation(i)
    \/ \E i \in 1..MaxEvents : LogReputationChange(i)
    \/ ApplyWeeklyDecayBegin
    \/ \E up \in BOOLEAN : ApplyWeeklyDecayNode(up)

\* the reputation engine alone: no worker is registered and no task is submitted
RepInit == EmptyRegistry /\ InitTask /\ InitReputation /\ InitExt

RepSpec == RepInit /\ [][RepNext]_vars

\* The task events of the reputation engine applied one at a time: a call
\* begins only when no other call is in progress.
SeqRepNext ==
    \/ \E n \in Nodes, ms \in ExecutionTimes : upd = <<>> /\ RecordTaskCompleted(n, ms)
    \/ \E n \in Nodes : upd = <<>> /\ RecordTaskTimeout(n)
    \/ \E n \in Nodes, invalid \in BOOLEAN : upd = <<>> /\ RecordTaskFailed(n, invalid)
    \/ GetReputation(1)
    \/ UpdateNodeReputation(1)
    \/ LogReputationChange(1)

SeqRepSpec == RepInit /\ [][SeqRepNext]_vars

\* ------------------------------------------ results and their credit
\* the call of record_task_completed that handle_task_result starts with
\* asyncio.create_task (lines 888-895), at its entry
CompletedCall(n, ms) ==
    [node |-> n,
     change |-> IF IsFast(ms) THEN Points(TASK_COMPLETED_POINTS + TASK_FAST_BONUS)
                              ELSE Points(TASK_COMPLETED_POINTS),
     reason |-> IF IsFast(ms) THEN "task_fast" ELSE "task_completed",
     ms |-> ms, pc |-> "read", current |-> 0]

\* handle_task_result(node_id = n) for subtask s of a result that decrypts and
\* reports execution_time_ms = ms, with the reputation update it starts
HandleTaskResultCredited(n, s, ms) ==
    /\ UNCHANGED extVars
    /\ events < MaxEvents
    /\ TaskResult(n, s, TRUE)
    /\ events' = events + 1
    /\ upd' = Append(upd, CompletedCall(n, ms))
    /\ UNCHANGED <<reputation, decay, replog>>

\* The task of NumSubs subtasks with the reputation updates of its results
CreditNext ==
    \/ CreateTask(FALSE, FALSE)
    \/ ProcessTaskStart(NumSubs)
    \/ \E s \in Subs : Select(s)
    \/ \E s \in Subs, n \in Nodes : Send(s, n, TRUE)
    \/ \E s \in Subs : WaitSignalled(s)
    \/ \E s \in Subs : WaitTimeout(s)
    \/ \E s \in Subs : ReassignWaitTimeout(s)
    \/ Finalize
    \/ \E n \in Nodes, s \in Subs, ms \in ExecutionTimes : HandleTaskResultCredited(n, s, ms)
    \/ \E i \in 1..MaxEvents : GetReputation(i)
    \/ \E i \in 1..MaxEvents : UpdateNodeReputation(i)
    \/ \E i \in 1..MaxEvents : LogReputationChange(i)

CreditSpec == PairInit /\ [][CreditNext]_vars

\* ------------------------------------------------------------------ C1
\* C1: the persisted status of a task only moves forward: it is created
\* Pending, Pending is only followed by Processing, Processing only by
\* Completed, Failed or Partial, and once the status is terminal no status
\* is written again (update_task_status is not called any more).
C1_StatusForward ==
    [][/\ task'.status # task.status =>
            <<task.status, task'.status>> \in
                {<<"none", "pending">>, <<"pending", "processing">>,
                 <<"processing", "completed">>, <<"processing", "failed">>,
                 <<"processing", "partial">>}
       /\ task.status \in TerminalTask => task'.writes = task.writes]_vars

\* the vision failure was recorded: Failed was written after Processing and
\* _process_task returned
C1_FailedAfterVisionFailure ==
    /\ task.status = "failed"
    /\ task.files
    /\ task.writes = 2
    /\ tpc = "done"
    /\ sub[1].status = "failed"

\* ------------------------------------------------------------------ C2
\* C2: every created task eventually reaches a terminal status, whatever the
\* workers do, under fair scheduling of the orchestration and of its timers.
C2_EventuallyTerminal ==
    (task.status # "none") ~> (task.status \in TerminalTask)

\* the task ended although a worker that was assigned a subtask stayed silent
C2_TerminalAfterSilence ==
    /\ task.status \in TerminalTask
    /\ \E s \in 1..nsub : sub[s].status = "timeout" /\ assignments[s] # None
    /\ frames = 0

\* ------------------------------------------------------------------ C3
\* C3: when the orchestrator finalizes a task after waiting on its subtasks,
\* the status it writes is Completed iff all subtasks are Completed, Failed
\* iff none is Completed, and Partial otherwise.
C3_FinalStatusFromSubtasks ==
    [][(~task.final /\ task'.final) =>
          LET completed == {s \in 1..nsub : sub'[s].status = "completed"}
          IN task'.status = IF completed = 1..nsub THEN "completed"
                            ELSE IF completed = {} THEN "failed"
                            ELSE "partial"]_vars

\* ------------------------------------------------------------------ C4
\* C4: once the status of a subtask is terminal (Completed, Failed, Timeout)
\* it never changes again, and in every state the response of a subtask is
\* populated iff its status is Completed.
C4_SubtaskTerminalMonotone ==
    /\ [](\A s \in Subs : sub[s].response <=> sub[s].status = "completed")
    /\ [][\A s \in Subs : sub[s].status \in TerminalSub =>
                             sub'[s].status = sub[s].status]_vars

\* ------------------------------------------------------------------ C5
\* C5: no TASK_ASSIGN for a subtask of a task submitted with images is sent
\* to a worker that does not support vision, neither in the initial
\* assignment nor in a reassignment.
C5_ImagesOnlyToVisionWorkers ==
    task.hasImages => \A r \in sent : vision[r.node]

\* ------------------------------------------------------------------ C6
\* C6: a task submitted with an image while no registered worker supports
\* vision ends Failed, no TASK_ASSIGN is sent for it, and its stream
\* session, if it has one, receives an error sentinel.
C6_NoVisionWorkerFails ==
    (task.hasImages /\ ~task.files) =>
        /\ sent = {}
        /\ task.status \in TerminalTask =>
              /\ task.status = "failed"
              /\ stream.exists =>
                    \E i \in 1..Len(stream.queue) : stream.queue[i] = "error"

C8_SentinelIsLast ==
    \A i \in 1..Len(stream.queue) :
        stream.queue[i] \in {"done", "error"} => i = Len(stream.queue)

\* ------------------------------------------------------------------ C9
\* C9: for every streamed task, eventually a done or error sentinel is
\* enqueued on its session or the session is removed by the sweep.
C9_StreamEventuallyEnds ==
    (task.streaming /\ task.status # "none") ~>
        \/ ~stream.exists
        \/ \E i \in 1..Len(stream.queue) : stream.queue[i] \in {"done", "error"}

\* ----------------------------------------------------------------- C10
\* C10: in every reachable state the stored reputation of every node is at
\* least MIN_REPUTATION, under any interleaving of completion, timeout,
\* invalid-response, uptime and broken-promise events and weekly decays.
C10_ReputationFloor ==
    \A n \in Nodes : reputation[n] >= Points(MIN_REPUTATION)

\* two penalties that together exceed the distance to the floor were applied
\* one after the other, and the stored value is the floor
C10_FloorApplied ==
    /\ events = 2
    /\ upd = <<>>
    /\ ~decay.active
    /\ \E n \in Nodes : reputation[n] = Points(MIN_REPUTATION)

\* ----------------------------------------------------------------- C11
\* C11: a NODE_REGISTER creates or replaces a ConnectedNode, writes the Node
\* row or is answered REGISTER_ACK{success=true} only if it carried an
\* account key that verified to an active account or an enrollment token
\* that was valid and unused when it was presented; the handling of any
\* other registration ends with REGISTER_ACK{success=false} on its channel
\* and leaves the registry and the Node rows unchanged.
C11_RegistrationNeedsCredential ==
    [][\A c \in Chans :
          LET r == chan[c].reg IN
          (chan[c].pc = "commit" /\ r.acct = None /\ r.tok = None) =>
              /\ conn' = conn
              /\ row' = row
              /\ chan'[c].pc # "commit" => ~ack'[c].success /\ ack'[c] # ack[c]]_vars

\* ----------------------------------------------------------------- C14
\* C14: verify_account succeeds for a key iff an account with the hash of the
\* key exists and its status is active at that moment, and a registration
\* that presents an account key gets past the authentication under the same
\* condition (so both are rejected while the account is suspended and
\* succeed again once it is reactivated); the account of a freshly generated
\* key is active; verifying changes no account.
C14_VerifyIffActive ==
    [][/\ \A k \in KeyInputs :
            VerifyAccount(k) =>
                /\ vres'.ok <=> (k \in Keys /\ account[k] = "active")
                /\ account' = account
       /\ \A c \in Chans, n \in Nodes, k \in KeyInputs \ {None},
             t \in TokenInputs, x \in AdmPayloads :
            RegisterAuthenticate(c, n, k, t, x) =>
                IF k \in Keys /\ account[k] = "active"
                THEN chan'[c].pc = "commit" /\ chan'[c].reg.acct = k
                ELSE chan'[c].pc = "closed" /\ ~ack'[c].success
       /\ \A k \in Keys : CreateAccount(k) => account'[k] = "active"]_vars

\* a registration was answered that the account is suspended, and the key of
\* that account, the only one there is, verifies now: it was reactivated
C14_RejectedThenAccepted ==
    \E k \in Keys :
        /\ vres = [key |-> k, ok |-> TRUE]
        /\ account[k] = "active"
        /\ \A j \in Keys \ {k} : account[j] = "none"
        /\ \E c \in Chans : ack[c] = [success |-> FALSE, message |-> "inactive"]

\* ----------------------------------------------------------------- C17
\* C17: when the coroutine of a worker channel ends (the channel was lost,
\* the worker sent NODE_DISCONNECT, or the coordinator closed the channel),
\* no ConnectedNode whose websocket is that channel is left in the registry.
C17_CloseRemovesNode ==
    [][\A c \in Chans :
          (chan[c].pc # "closed" /\ chan'[c].pc = "closed") =>
              \A n \in connected' : conn'[n].ws # c]_vars

\* ----------------------------------------------------------------- C15
\* C15: the tier assigned at registration is the tier of the point table
\* (VRAM >=24: 25, >=16: 20, >=12: 15, >=8: 10; params >=100: 65, >=70: 50,
\* >=30: 40, >=13: 25, >=7: 15, >=3: 5; tokens/s >=50: 25, >=20: 15, >=10: 10;
\* total >=61 premium, >=21 standard, else basic) of the triple of the latest
\* registration, on the ConnectedNode and on the persisted Node row, whatever
\* was registered before and whatever the heartbeats reported since.
C15_TablePoints(table, value) ==
    LET reached == {e \in table : value >= e[1]}
    IN IF reached = {} THEN 0
       ELSE (CHOOSE e \in reached : \A f \in reached : e[1] >= f[1])[2]

C15_TableTier(vram, params, tps) ==
    LET total == C15_TablePoints({<<24, 25>>, <<16, 20>>, <<12, 15>>, <<8, 10>>}, vram)
                 + C15_TablePoints({<<100, 65>>, <<70, 50>>, <<30, 40>>, <<13, 25>>,
                                    <<7, 15>>, <<3, 5>>}, params)
                 + C15_TablePoints({<<50, 25>>, <<20, 15>>, <<10, 10>>}, tps)
    IN IF total >= 61 THEN "premium" ELSE IF total >= 21 THEN "standard" ELSE "basic"

C12_SelectedIsOnline ==
    [][\A s \in Subs : (spc[s] = "select" /\ spc'[s] = "send") =>
            \A n \in avail'[s] : n \in connected /\ fresh[n]]_vars

\* ----------------------------------------------------------------- C13
\* C13: a response of get_task carries the task's status and final_response
\* only when the requesting principal is the one stored as the task's
\* submitter; for any other principal it is 403 without content, for a task id
\* with no row it is 404, and the request changes nothing but the response.
C13_GetTaskOwnerOnly ==
    [][reply' # reply =>
        LET r == reply'
            t == tasks[r.task_id]
        IN /\ UNCHANGED <<tasks, orchVars, repVars, admVars>>
           /\ t = NoTask => r.code = 404
           /\ (t # NoTask /\ t.user_id # r.user) => r.code = 403
           /\ (t # NoTask /\ t.user_id = r.user) =>
                  r.code = 200 /\ r.status = t.status /\ r.response = t.final_response
           /\ r.code # 200 => r.status = "none" /\ r.response = "none"]_vars

\* the other principal asked for a completed task and was refused
C13_ForbiddenForOther ==
    /\ reply.code = 403
    /\ tasks[reply.task_id].status = "completed"
    /\ tasks[reply.task_id].user_id # reply.user

\* ----------------------------------------------------------------- C16
C16_ChunksOf(items) ==
    LET cs == SelectSeq(items, LAMBDA it : it.type = "chunk")
    IN [i \in 1..Len(cs) |-> cs[i].content]

\* C16: the chunks the subscriber has dequeued are, in order and without
\* repetition, the first chunks push was called with for the session.
C16_DequeuedInPushOrder ==
    LET g == C16_ChunksOf(got)
    IN Len(g) <= Len(pushed) /\ g = SubSeq(pushed, 1, Len(g))

\* two different chunks were read, and a further push came in between or after
C16_ReadWhilePushing ==
    /\ C16_ChunksOf(got) = <<1, 2>>
    /\ pushed = <<1, 2, 1>>
    /\ stream.queue # <<>>

\* ----------------------------------------------------------------- C18
\* C18: the current_load of every ConnectedNode is never negative.
C18_LoadNonNegative == \A n \in connected : load[n] >= 0

\* ----------------------------------------------------------------- C20
\* C20: a selection called with (n, exclude) returns normally, and the list it
\* returns has pairwise distinct members, all of its candidate set C (workers
\* registered at the call and not in exclude) and min(n, |C|) of them; it is
\* empty when every registered worker is excluded.
C20_SelectionResult ==
    [][selected' # selected =>
        LET r == selected'
        IN /\ ~r.raised
           /\ r.cand \subseteq connected \ r.exclude
           /\ Len(r.nodes) = Min(r.n, Cardinality(r.cand))
           /\ \A i \in 1..Len(r.nodes) : r.nodes[i] \in r.cand
           /\ \A i \in 1..Len(r.nodes), j \in 1..Len(r.nodes) : i # j => r.nodes[i] # r.nodes[j]
           /\ connected \subseteq r.exclude => r.nodes = <<>>]_vars

\* ----------------------------------------------------------------- C19
\* the delta the claim gives for each kind of event
C19_Delta(reason) ==
    IF reason = "task_completed" THEN 10
    ELSE IF reason = "task_fast" THEN 15
    ELSE IF reason = "task_timeout" THEN 0 - 20
    ELSE 0 - 50

RECURSIVE C19_Fold(_, _, _)
C19_Fold(rows, n, acc) ==
    IF rows = <<>> THEN acc
    ELSE LET r == Head(rows)
             next == IF r.node # n THEN acc
                     ELSE IF acc + 100 * C19_Delta(r.reason) < 10 * 100 THEN 10 * 100
                     ELSE acc + 100 * C19_Delta(r.reason)
         IN C19_Fold(Tail(rows), n, next)

\* C19: with the events applied one at a time, whenever no event is in
\* progress there is exactly one reputation_log row per event, a completion
\* row is a fast one exactly when its execution time was below 30 s, and the
\* stored reputation of every node is the fold of the rows' deltas, clamped
\* below at 10, starting from 100.
C19_SequentialFold ==
    upd = <<>> =>
        /\ Len(replog) = events
        /\ \A i \in 1..Len(replog) :
              /\ replog[i].reason \in {"task_completed", "task_fast"} =>
                     (replog[i].reason = "task_fast" <=> replog[i].ms < 30000)
              /\ replog[i].change = 100 * C19_Delta(replog[i].reason)
        /\ \A n \in Nodes : reputation[n] = C19_Fold(replog, n, 100 * 100)

\* two invalid responses in a row from one node: the sum would be 0, the fold is 10
C19_ClampedAtFloor ==
    /\ upd = <<>>
    /\ Len(replog) = 2
    /\ replog[1].node = replog[2].node
    /\ replog[1].reason = "task_invalid"
    /\ replog[2].reason = "task_invalid"
    /\ reputation[replog[1].node] = 10 * 100

\* ----------------------------------------------------------------- C21
\* C21: a token that was consumed or revoked stays so, and a registration
\* gets past the authentication on a token only in the step that consumes
\* it: the token was unused and not revoked and is now used by that node.
\* So at most one registration is accepted per token, also when two of them
\* validated it before either consumed it.
C21_TokenEnrollsOnce ==
    [][/\ \A t \in Tokens :
             /\ token[t].revoked => token'[t].revoked
             /\ token[t].used_by # None => token'[t].used_by = token[t].used_by
       /\ \A c \in Chans :
             (chan[c].pc # "commit" /\ chan'[c].pc = "commit" /\ chan'[c].reg.tok # None) =>
                 LET t == chan'[c].reg.tok
                 IN /\ token[t].issued /\ token[t].used_by = None /\ ~token[t].revoked
                    /\ token'[t].used_by = chan'[c].reg.node]_vars

\* two registrations validated the same token; one consumed it and the other
\* was refused at its consume
C21_SecondConsumeRefused ==
    \E c \in Chans, d \in Chans :
        /\ c # d
        /\ ack[c] = [success |-> FALSE, message |-> "consume_failed"]
        /\ ack[d].success
        /\ \E t \in Tokens : token[t].used_by # None /\ ~token[t].revoked

\* ----------------------------------------------------------------- C22
\* C22: while the orchestrator is in the first wait for a subtask whose
\* TASK_RESULT was already processed, the wait is signalled (so that it ends
\* as completed and never times out), also when the result was processed
\* before the wait began.
C22_ResultEndsWait ==
    \A s \in Subs :
        (spc[s] = "wait1" /\ sub[s].status = "completed") => pending[s] = "set"

\* ----------------------------------------------------------------- C23
\* C23: when the first wait for a subtask assigned to worker f times out,
\* that step records exactly one more failure on the breaker of f and of no
\* other worker, and takes exactly one off the load of f (when f is still
\* registered) and of no other worker; a reassignment is sent at most once
\* per subtask and to a worker other than f; and when the wait after the
\* reassignment times out too, the subtask is marked timeout.
C23_TimeoutHandling ==
    [][\A s \in Subs :
        /\ (spc[s] = "wait1" /\ pending[s] = "clear" /\ spc'[s] # "wait1"
                /\ assignments[s] # None)
            => LET f == assignments[s] IN
               /\ cb'[f].failure_count = cb[f].failure_count + 1
               /\ \A n \in Nodes \ {f} : cb'[n] = cb[n] /\ load'[n] = load[n]
               /\ f \in connected => load'[f] = load[f] - 1
               /\ excluded'[s] = {f}
        /\ (spc[s] = "send" /\ ctx[s] = "re" /\ sent' # sent)
            => /\ \A r \in sent : ~(r.sub = s /\ r.ctx = "re")
               /\ \A r \in sent' \ sent :
                      r.sub = s /\ r.ctx = "re" /\ r.node # assignments[s]
        /\ (spc[s] = "wait2" /\ pending[s] = "clear" /\ spc'[s] # "wait2")
            => sub'[s].status = "timeout"]_vars

\* ----------------------------------------------------------------- C24
\* C24: an assignment never goes beyond MAX_RETRIES selection attempts; each
\* step that ends an iteration of the assignment loop after a node was picked
\* is one of three: the send succeeded (to a picked worker that is not
\* excluded and was not sent this assignment before; its load goes up by one,
\* no breaker changes, and a first assignment records subtask -> node), the
\* send failed (nothing is recorded as sent, loads and the mapping stay, the
\* breaker of exactly that worker gets exactly one more failure, and the
\* worker is excluded when the loop goes on), or the encryption raised
\* (nothing recorded at all); and loads go up and mappings change in no
\* other step.
C24_SendOk(s, n) ==
    /\ n \in connected /\ ~broken'[n]
    /\ LET r == [sub |-> s, node |-> n, ctx |-> ctx[s], streaming |-> task.streaming]
       IN r \notin sent /\ sent' = sent \cup {r}
    /\ load' = [load EXCEPT ![n] = @ + 1]
    /\ cb' = cb
    /\ IF ctx[s] = "init" THEN assignments' = [assignments EXCEPT ![s] = n]
       ELSE assignments' = assignments

C24_SendFailed(s, n) ==
    /\ n \notin connected \/ broken'[n]
    /\ sent' = sent /\ load' = load /\ assignments' = assignments
    /\ cb'[n].failure_count = cb[n].failure_count + 1
    /\ \A m \in Nodes \ {n} : cb'[m] = cb[m]
    /\ spc'[s] = "select" =>
           /\ excluded'[s] = excluded[s] \cup {n}
           /\ attempt'[s] = attempt[s] + 1

C24_EncryptRaised(s) ==
    /\ sent' = sent /\ load' = load /\ assignments' = assignments /\ cb' = cb
    /\ spc'[s] \in {"aborted", "done"}

C24_AssignmentLoop ==
    [][/\ \A s \in Subs :
            /\ attempt'[s] < MAX_RETRIES
            /\ (spc[s] = "send" /\ spc'[s] # "send") =>
                   \/ \E n \in avail[s] \ excluded[s] : C24_SendOk(s, n)
                   \/ \E n \in avail[s] \ excluded[s] : C24_SendFailed(s, n)
                   \/ C24_EncryptRaised(s)
       /\ (assignments' # assignments \/ \E n \in Nodes : load'[n] > load[n]) =>
              \E s \in Subs : spc[s] = "send" /\ \E n \in avail[s] : C24_SendOk(s, n)]_vars

\* a send to one worker failed and the next attempt reached the other worker
C24_SecondAttemptSucceeded ==
    \E s \in Subs, n \in Nodes, m \in Nodes :
        /\ n # m
        /\ broken[m] /\ cb[m].failure_count = 1
        /\ assignments[s] = n /\ load[n] = 1
        /\ \E r \in sent : r.sub = s /\ r.node = n /\ r.ctx = "init"

\* ----------------------------------------------------------------- C25
\* C25: the handling of a TASK_RESULT of worker n whose encrypted_response
\* does not decrypt records one more failure on the breaker of n and leaves
\* the status of the subtask it names as it was.
C25_UndecryptableResult ==
    [][(handled' # handled /\ ~handled'.decrypted) =>
           LET n == handled'.node
               s == handled'.sub
           IN /\ cb'[n].failure_count = cb[n].failure_count + 1
              /\ sub'[s] = sub[s]]_vars

\* ----------------------------------------------------------------- C26
\* the last k calls recorded for a breaker were all failures
C26_FailuresInARow(t, k) ==
    /\ Len(t) >= k
    /\ \A i \in (Len(t) - k + 1)..Len(t) : t[i] = "failure"

\* C26: a breaker goes from closed to open in a step exactly when that step
\* records a failure that is the third of three failures in a row, with no
\* success recorded in between.
C26_OpensAfterThreeInARow ==
    [][\A n \in Nodes :
        cb[n].state = "closed" =>
            (cb'[n].state = "open"
                <=> /\ trail'[n] # trail[n]
                    /\ C26_FailuresInARow(trail'[n], CIRCUIT_BREAKER_FAILURE_THRESHOLD))]_vars

\* ----------------------------------------------------------------- C27
\* C27: a worker whose breaker is open and whose recovery timeout has not
\* passed since its last recorded failure is not available and not among the
\* candidates of a selection; a breaker leaves open only for half_open, only
\* in a call of is_available and only after the timeout has passed; a success
\* recorded while it is open leaves its state and its timer alone; and every
\* recorded failure restarts the timer.
C27_OpenUntilTimeout ==
    [][\A n \in Nodes :
        /\ (cb[n].state = "open" /\ ~cb[n].elapsed)
            => ~IsAvailable(cb[n]) /\ n \notin AvailableV3({})
        /\ (cb[n].state = "open" /\ cb'[n].state # "open")
            => cb'[n].state = "half_open" /\ cb[n].elapsed /\ trail' = trail
        /\ (cb[n].state = "open" /\ trail'[n] = Append(trail[n], "success"))
            => cb'[n].state = "open" /\ cb'[n].elapsed = cb[n].elapsed
        /\ trail'[n] = Append(trail[n], "failure") => ~cb'[n].elapsed]_vars

\* a success was recorded for an open breaker, which is still open and unavailable
C27_SuccessWhileOpen ==
    \E n \in Nodes :
        /\ trail[n] = <<"failure", "failure", "failure", "success">>
        /\ cb[n].state = "open" /\ ~cb[n].elapsed
        /\ n \notin AvailableV3({})

\* ----------------------------------------------------------------- C28
\* C28: a success recorded for a half_open breaker closes it and sets its
\* failure_count to 0; a success recorded for a closed or open breaker leaves
\* its state as it was.
C28_SuccessClosesHalfOpen ==
    [][\A n \in Nodes :
        trail'[n] = Append(trail[n], "success") =>
            IF cb[n].state = "half_open"
            THEN cb'[n].state = "closed" /\ cb'[n].failure_count = 0
            ELSE cb'[n].state = cb[n].state]_vars

\* three failures opened the breaker, it became half_open after the timeout
\* and one success closed it
C28_ClosedAfterTest ==
    \E n \in Nodes :
        /\ trail[n] = <<"failure", "failure", "failure", "success">>
        /\ cb[n].state = "closed" /\ cb[n].failure_count = 0

\* ----------------------------------------------------------------- C29
\* the assignments sent to worker n that are still assigned to it and unanswered
C29_Outstanding(n) ==
    {r \in sent : r.node = n /\ sub[r.sub].status = "assigned" /\ sub[r.sub].node = n}

\* C29: while the breaker of a worker is half_open, at most one assignment
\* sent to that worker is outstanding.
C29_OneTestRequest ==
    \A n \in Nodes : cb[n].state = "half_open" => Cardinality(C29_Outstanding(n)) <= 1

\* ----------------------------------------------------------------- C30
\* C30: a registration accepted for a node_id that has a ConnectedNode leaves
\* the current_load of that node and its breaker as they were.
C30_ReRegistrationKeepsLoad ==
    [][\A c \in Chans :
        (chan[c].pc = "commit" /\ chan'[c].pc = "recv" /\ chan[c].reg.node \in connected)
            => LET n == chan[c].reg.node
               IN load'[n] = load[n] /\ cb'[n] = cb[n]]_vars

\* ----------------------------------------------------------------- C31
\* the clamped running sum of the logged changes of node n, from acc
RECURSIVE C31_RunningSum(_, _, _)
C31_RunningSum(rows, n, acc) ==
    IF rows = <<>> THEN acc
    ELSE LET r == Head(rows)
             next == IF r.node # n THEN acc
                     ELSE IF acc + r.change < 10 * 100 THEN 10 * 100
                     ELSE acc + r.change
         IN C31_RunningSum(Tail(rows), n, next)

\* C31: whenever no reputation update and no decay is in progress, the stored
\* reputation of every node is the clamped running sum of the changes logged
\* for it (decay rows included), starting from 100, however the updates
\* that ran before were interleaved.
C31_NoLostUpdate ==
    (upd = <<>> /\ ~decay.active) =>
        \A n \in Nodes : reputation[n] = C31_RunningSum(replog, n, 100 * 100)

\* ----------------------------------------------------------------- C32
\* C32: the TASK_ASSIGN frames of the task that carry enable_streaming = true
\* were all sent to one and the same worker.
C32_OneStreamingWorker ==
    Cardinality({r.node : r \in {x \in sent : x.streaming}}) <= 1

\* ----------------------------------------------------------------- C33
\* C33: the step in which the coordinator receives a TASK_STREAM frame from a
\* registered worker, while the session of the task exists, appends the chunk
\* of the frame to the queue of the session.
C33_FrameIsEnqueued ==
    [][(heard' = heard + 1 /\ stream.exists)
           => stream'.queue = Append(stream.queue, "chunk")]_vars

\* C34: the queue of a stream session has a fixed capacity that its length
\* never exceeds; a push into a full queue drops the chunk.  asyncio.Queue()
\* is built with maxsize = 0, so the only limit on the length is the number of
\* items MaxItems this model lets the producers put: a capacity would keep the
\* length below it.
C34_QueueHasCapacity ==
    Len(stream.queue) < MaxItems

\* C35: when a channel closes, a worker whose ConnectedNode is bound to
\* another channel that is still open stays registered.
C35_OldChannelCloseKeepsNode ==
    [][\A c \in Chans, n \in Nodes :
          (/\ chan[c].pc = "recv" /\ chan'[c].pc = "closed"
           /\ n \in connected
           /\ conn[n].ws # c
           /\ conn[n].ws \in Chans
           /\ chan'[conn[n].ws].pc = "recv")
          => n \in connected']_vars

\* C36: a TASK_RESULT that decrypts and names a subtask the sender is not
\* (or no longer) assigned leaves the subtask row and the waiter's event as
\* they were.
C36_OnlyAssignedWorkerCompletes ==
    [][(frames' = frames + 1 /\ handled'.node # sub[handled'.sub].node)
          => (sub' = sub /\ pending' = pending)]_vars

\* the completion events of worker n: calls of record_task_completed in
\* progress and rows they have logged
C37_Credits(n) ==
    Cardinality({i \in 1..Len(upd) :
                    upd[i].node = n /\ upd[i].reason \in {"task_completed", "task_fast"}})
    + Cardinality({i \in 1..Len(replog) :
                    replog[i].node = n /\ replog[i].reason \in {"task_completed", "task_fast"}})

\* C37: a worker has at most one completion reputation event and at most one
\* recorded breaker success for each TASK_ASSIGN sent to it.
C37_OneCreditPerAssign ==
    \A n \in Nodes :
        LET assigned == Cardinality({r \in sent : r.node = n})
        IN /\ C37_Credits(n) <= assigned
           /\ cb[n].success_count <= assigned

\* C38: with workers that start idle and neither send heartbeats nor register
\* again, no connected worker carries load once the task is terminal.
C38_LoadBalanced ==
    task.status \in TerminalTask => \A n \in connected : load[n] = 0

\* C39: a failure recorded while the breaker of a worker is half_open opens
\* it, and the worker is unavailable until the recovery timeout has elapsed.
C39_FailedTestReopens ==
    [][\A n \in Nodes :
          (cb[n].state = "half_open" /\ cb'[n].failure_count = cb[n].failure_count + 1)
          => (cb'[n].state = "open" /\ ~IsAvailable(cb'[n]))]_vars

\* C40: when the status of the task is terminal, every subtask row of the
\* task has a terminal status.
C40_TerminalTaskHasTerminalSubtasks ==
    task.status \in TerminalTask =>
        \A s \in 1..nsub : sub[s].status \in TerminalSub

====
